---------------------------- MODULE Spec2Model ----------------------------
(***************************************************************************)
(* Position-protection reconciler for the single symbol SOLUSDC.           *)
(*                                                                         *)
(* Units.  Quantities are integers in units of 0.00001 (so the "%.4f"      *)
(* formatting of a quantity is a real rounding), prices are integers in    *)
(* units of 0.001 (so the "%.2f" formatting and roundToTickSize are real   *)
(* roundings), unrealized PnL is an integer number of quote-currency units *)
(* (unPnl <= maxProfit*0.5 is 2*unPnl <= maxProfit).                       *)
(*                                                                         *)
(* The venue (exchange) is the environment: its resting orders are `book`, *)
(* its position is whatever the next position-risk call answers.           *)
(***************************************************************************)
EXTENDS Integers, Sequences, FiniteSets, Bags, TLC

VARIABLES
    env,           \* the environment variables main() reads: the API key and the secret
    phase,         \* "main" (main() has not yet looked at the keys), "run", "fatal" (log.Fatal)
    loop,          \* the loop goroutine of the program: where it is, the number of its tick
    bodies,        \* the tick bodies in progress: tick number, operation reached, call in flight
    others,        \* the goroutines other than the loop that have a gateway call in flight
    variant,       \* which program is running: "p003", "p001", "p000", "p002", "ui" (trader_ui.go),
                   \* "trader" (a caller of trader.go)
    running,       \* the loop of run() has not returned
    venueRO,       \* the reduceOnly flag the venue reports for the closing orders the programs create
    maxProfit,     \* TraderCLI.maxProfit : map symbol -> float64
    lastPosition,  \* TraderCLI.lastPosition : map symbol -> *PositionRisk
    positions,     \* TraderCLI.positions of part_001 : map symbol -> float64 (last position size)
    lastUpdate,    \* TraderCLI.lastUpdate, kept as time.Since(lastUpdate) in seconds, capped at CacheTTL
    book,          \* the venue's open orders for the symbol: a bag of orders
    calls,         \* the gateway calls of the latest loop iteration, in order
    report,        \* what the latest loop iteration did (error returned, monitor reached, ...)
    seenMax,       \* history: maximum unPnl the monitor has observed since the position opened
    closes         \* history: accepted market closes for the cached snapshot

vars == <<env, phase, loop, bodies, others, variant, running, venueRO, maxProfit, lastPosition, positions, lastUpdate, book, calls, report,
          seenMax, closes>>

-----------------------------------------------------------------------------
(* Bounds of the model *)

\* other parties add a resting order only while fewer than MaxVenueBook orders rest
MaxVenueBook == 2

(* Program constants *)

\* 0.0001 in quantity units of 0.00001
QtyTol == 10
\* 0.01 in price units of 0.001
PriceTol == 10
\* the 0.01 tick, in price units of 0.001
TickSize == 10
\* one decimal digit of "%.4f" in quantity units of 0.00001
QtyStep == 10
\* stop-loss distance 1.0 in price units
StopOffset == 1000
\* take-profit distance 2.0 in price units
ProfitOffset == 2000
\* maxProfit >= 200
ProfitThreshold == 200
\* the cache is valid while time.Since(lastUpdate) < 5 s
CacheTTL == 5
\* time.Sleep(time.Second) at the end of an iteration
TickSleep == 1
\* time.Sleep(1 * time.Second) after cancelAllTPSL on a position change
SettleSleep == 1
\* time.Sleep(5 * time.Second) after a failed position fetch
FailSleep == 5

Symbol == "SOLUSDC"

\* unrealized PnL values the venue may report
PnLs == {-50, 0, 100, 140, 200, 300}

\* position-risk entries of a calm market (PnL 0): long 1.0000 at 100.00, long
\* 1.0000 at 50.00, short 1.00004 at 100.004, short 2.5000 at 50.00
CalmPositions ==
    { [amt |-> 100000, entry |-> 100000, pnl |-> 0],
      [amt |-> 100000, entry |-> 50000, pnl |-> 0],
      [amt |-> -100004, entry |-> 100004, pnl |-> 0],
      [amt |-> -250000, entry |-> 50000, pnl |-> 0] }

\* position-risk entries of a moving market: long 1.0000 at 100.00 at any of the
\* PnL values, short 2.5000 at 50.00 in profit
MovingPositions ==
    {[amt |-> 100000, entry |-> 100000, pnl |-> u] : u \in PnLs}
    \cup {[amt |-> -250000, entry |-> 50000, pnl |-> u] : u \in {140, 300}}

\* &futures.PositionRisk{Symbol: "SOLUSDC", PositionAmt: "0"}: the other fields parse as 0
FlatPosition == [amt |-> 0, entry |-> 0, pnl |-> 0]

Abs(x) == IF x < 0 THEN -x ELSE x
Min(a, b) == IF a < b THEN a ELSE b

\* nearest multiple of m (x >= 0; no input of the model is a tie)
RoundTo(x, m) == ((x + (m \div 2)) \div m) * m

\* fmt.Sprintf("%.4f", q) read back by the venue
Fmt4(q) == RoundTo(q, QtyStep)
\* fmt.Sprintf("%.2f", p) read back by the venue
Fmt2(p) == RoundTo(p, TickSize)
\* math.Round(price/tickSize) * tickSize
roundToTickSize(price, tickSize) == RoundTo(price, tickSize)

(* Go maps keyed by the symbol *)
EmptyMap == [s \in {} |-> 0]
Has(m, k) == k \in DOMAIN m
Get(m, k, zero) == IF k \in DOMAIN m THEN m[k] ELSE zero
Put(m, k, v) == [s \in (DOMAIN m) \cup {k} |-> IF s = k THEN v ELSE m[s]]
Delete(m, k) == [s \in (DOMAIN m) \ {k} |-> m[s]]

-----------------------------------------------------------------------------
(* The exchange gateway *)

\* one gateway call, as the log of an iteration records it
Call(op, ok, n, typ, side, posSide, qty, price, tif) ==
    [op |-> op, ok |-> ok, n |-> n, typ |-> typ, side |-> side,
     posSide |-> posSide, qty |-> qty, price |-> price, tif |-> tif]
FetchCall(ok) == Call("positionRisk", ok, 0, "-", "-", "-", 0, 0, "-")
\* ListOpenOrders, answering n orders
ListCall(ok, n) == Call("list", ok, n, "-", "-", "-", 0, 0, "-")
\* CancelOrder of the listed order o
CancelCall(o, ok) == Call("cancel", ok, 0, o.type, o.side, "-", o.qty, 0, "-")
CreateCall(ok, typ, side, posSide, qty, price, tif) ==
    Call("create", ok, 0, typ, side, posSide, qty, price, tif)

\* a resting order as ListOpenOrders reports it (the fields the programs read; the
\* order id serves only to cancel the order just listed, so the book is a bag)
Order(typ, side, qty, reduceOnly) ==
    [type |-> typ, side |-> side, qty |-> qty, reduceOnly |-> reduceOnly]

\* the venue accepts a LIMIT or STOP_MARKET order: it rests in the book
Rest(bk, typ, side, qty, ro) == bk (+) SetToBag({Order(typ, side, qty, ro)})

\* the orders of bag b that are in the set S, with their multiplicities
SelectBag(b, S) == [o \in S \cap BagToSet(b) |-> b[o]]

\* the elements of a bag, each as often as it occurs, in a fixed order
RECURSIVE BagSeq(_)
BagSeq(b) ==
    IF BagToSet(b) = {} THEN <<>>
    ELSE LET o == CHOOSE x \in BagToSet(b) : TRUE
         IN  <<o>> \o BagSeq(b (-) SetToBag({o}))

\* the reduceOnly flag the venue may report for an order created without one
VenueReduceOnly == BOOLEAN

-----------------------------------------------------------------------------
(* part_003: the canonical command-line variant *)

\* what a pass returns: the venue's book and the map afterwards, the calls made,
\* whether an error was returned, whether the drawdown monitor was reached,
\* whether it triggered, whether the market close was accepted, seconds slept, and
\* the local maxProfit the trigger test read (0 when the monitor was not reached)
Outcome(bk, mp, cs, err, monitored, triggered, closed, slept, mark) ==
    [book |-> bk, maxProfit |-> mp, calls |-> cs, err |-> err, monitored |-> monitored,
     triggered |-> triggered, closed |-> closed, slept |-> slept, mark |-> mark]

\* a faulty variant: float equality in place of the 0.0001 tolerance
QtyEquals(qty, amt) == qty = Abs(amt)

\* |qty - |amt|| <= 0.0001
QtyMatches(qty, amt) == Abs(qty - Abs(amt)) <= QtyTol

\* a faulty variant: the cleanup of part_003 takes every limit order for a target and
\* does not spare the orders of the current quantity
CancelTargetsEvery(orders, currentAmt) ==
    SelectBag(orders, {o \in BagToSet(orders) : o.type = "LIMIT" \/ o.type = "STOP_MARKET"})

\* the listed orders cancelAllTPSL(currentAmt) tries to cancel
CancelTargets(orders, currentAmt) ==
    SelectBag(orders, {o \in BagToSet(orders) :
        /\ (o.type = "LIMIT" /\ o.reduceOnly) \/ o.type = "STOP_MARKET"
        /\ ~(currentAmt # 0 /\ QtyMatches(o.qty, currentAmt))})

\* the cancel calls for `targets`; those of the sub-bag failCancel are rejected
CancelCalls(targets, failCancel) ==
    LET okSeq == BagSeq(targets (-) failCancel)
        koSeq == BagSeq(failCancel)
    IN  [j \in 1..Len(okSeq) |-> CancelCall(okSeq[j], TRUE)]
        \o [j \in 1..Len(koSeq) |-> CancelCall(koSeq[j], FALSE)]

\* a faulty variant: the first rejected cancel ends the cleanup with an error
cancelAllTPSLStops(bk, currentAmt, listOk, failCancel) ==
    IF ~listOk
    THEN [book |-> bk, calls |-> <<ListCall(FALSE, 0)>>, err |-> TRUE]
    ELSE IF failCancel # EmptyBag
    THEN [book |-> bk,
          calls |-> <<ListCall(TRUE, BagCardinality(bk)),
                      CancelCall(BagSeq(failCancel)[1], FALSE)>>,
          err |-> TRUE]
    ELSE LET targets == CancelTargets(bk, currentAmt)
         IN  [book |-> bk (-) targets,
              calls |-> <<ListCall(TRUE, BagCardinality(bk))>>
                        \o CancelCalls(targets, EmptyBag),
              err |-> FALSE]

\* cancelAllTPSL: list the open orders, cancel every eligible one; a rejected cancel
\* is logged and skipped, a failed listing is the only error
cancelAllTPSL(bk, currentAmt, listOk, failCancel) ==
    IF ~listOk
    THEN [book |-> bk, calls |-> <<ListCall(FALSE, 0)>>, err |-> TRUE]
    ELSE LET targets == CancelTargets(bk, currentAmt)
         IN  [book |-> bk (-) (targets (-) failCancel),
              calls |-> <<ListCall(TRUE, BagCardinality(bk))>>
                        \o CancelCalls(targets, failCancel),
              err |-> FALSE]

\* some listed STOP_MARKET order has the position's quantity
hasValidStopLoss(orders, amt) ==
    \E o \in BagToSet(orders) : QtyMatches(o.qty, amt) /\ o.type = "STOP_MARKET"

\* some listed LIMIT order has the position's quantity
hasValidTakeProfit(orders, amt) ==
    \E o \in BagToSet(orders) : QtyMatches(o.qty, amt) /\ o.type = "LIMIT"

\* the closing side of a position
CloseSide(amt) == IF amt > 0 THEN "SELL" ELSE "BUY"
ClosePositionSide(amt) == IF amt > 0 THEN "LONG" ELSE "SHORT"

\* a faulty variant: the stop-loss quantity formatted from the signed amount
StopLossOrderSigned(amt, entryPrice) ==
    [typ |-> "STOP_MARKET", side |-> CloseSide(amt), posSide |-> ClosePositionSide(amt),
     qty |-> Fmt4(amt),
     price |-> Fmt2(IF amt > 0 THEN entryPrice - StopOffset ELSE entryPrice + StopOffset),
     tif |-> "-"]

\* a faulty variant: the stop price above the entry price for either direction
StopLossOrderAbove(amt, entryPrice) ==
    [typ |-> "STOP_MARKET", side |-> CloseSide(amt), posSide |-> ClosePositionSide(amt),
     qty |-> Fmt4(Abs(amt)), price |-> Fmt2(entryPrice + StopOffset), tif |-> "-"]

\* the stop-loss order of a position, as sent
StopLossOrder(amt, entryPrice) ==
    [typ |-> "STOP_MARKET", side |-> CloseSide(amt), posSide |-> ClosePositionSide(amt),
     qty |-> Fmt4(Abs(amt)),
     price |-> Fmt2(IF amt > 0 THEN entryPrice - StopOffset ELSE entryPrice + StopOffset),
     tif |-> "-"]

\* a faulty variant: the take-profit twice as far from the entry price
TakeProfitOrderFar(amt, entryPrice) ==
    [typ |-> "LIMIT", side |-> CloseSide(amt), posSide |-> ClosePositionSide(amt),
     qty |-> Fmt4(Abs(amt)),
     price |-> Fmt2(IF amt > 0 THEN entryPrice + 2 * ProfitOffset
                               ELSE entryPrice - 2 * ProfitOffset),
     tif |-> "GTC"]

\* the take-profit order of a position, as sent
TakeProfitOrder(amt, entryPrice) ==
    [typ |-> "LIMIT", side |-> CloseSide(amt), posSide |-> ClosePositionSide(amt),
     qty |-> Fmt4(Abs(amt)),
     price |-> Fmt2(IF amt > 0 THEN entryPrice + ProfitOffset ELSE entryPrice - ProfitOffset),
     tif |-> "GTC"]

\* the protective market close of a position, as sent
MarketCloseOrder(amt) ==
    [typ |-> "MARKET", side |-> IF amt < 0 THEN "BUY" ELSE "SELL",
     posSide |-> IF amt < 0 THEN "SHORT" ELSE "LONG",
     qty |-> Fmt4(Abs(amt)), price |-> 0, tif |-> "-"]

CreateOf(o, ok) == CreateCall(ok, o.typ, o.side, o.posSide, o.qty, o.price, o.tif)

\* the high-water mark after observing unPnl: a stored 0 (or no entry) counts as "none yet"
UpdateMaxProfit(mp, unPnl) ==
    LET maxP == Get(mp, Symbol, 0)
    IN  IF maxP = 0 \/ unPnl > maxP THEN Put(mp, Symbol, unPnl) ELSE mp

\* a faulty variant: a drawdown of exactly one half does not count
DrawdownTriggeredStrict(maxP, unPnl) == maxP >= ProfitThreshold /\ 2 * unPnl < maxP

\* a faulty variant: the peak has to be above the threshold
DrawdownTriggeredAbove(maxP, unPnl) == maxP > ProfitThreshold /\ 2 * unPnl <= maxP

\* maxProfit >= 200 && unPnl <= maxProfit*0.5
DrawdownTriggered(maxP, unPnl) == maxP >= ProfitThreshold /\ 2 * unPnl <= maxP

\* a faulty variant: the accepted market close leaves the high-water mark in the map
ProtectiveCloseKeeps(position, bk, mp1, cs, slept, failAt) ==
    LET maxP == Get(mp1, Symbol, 0)
        m == MarketCloseOrder(position.amt)
        ok == failAt # "market"
    IN  IF ~DrawdownTriggered(maxP, position.pnl)
        THEN Outcome(bk, mp1, cs, FALSE, TRUE, FALSE, FALSE, slept, maxP)
        ELSE Outcome(bk, mp1, cs \o <<CreateOf(m, ok)>>, ~ok, TRUE, TRUE, ok, slept, maxP)

\* a faulty variant: a rejected market close drops the high-water mark as well
ProtectiveCloseDrops(position, bk, mp1, cs, slept, failAt) ==
    LET maxP == Get(mp1, Symbol, 0)
        m == MarketCloseOrder(position.amt)
        ok == failAt # "market"
    IN  IF ~DrawdownTriggered(maxP, position.pnl)
        THEN Outcome(bk, mp1, cs, FALSE, TRUE, FALSE, FALSE, slept, maxP)
        ELSE Outcome(bk, Delete(mp1, Symbol), cs \o <<CreateOf(m, ok)>>, ~ok, TRUE, TRUE, ok,
                     slept, maxP)

\* the trigger test and the market close, given the updated map
ProtectiveClose(position, bk, mp1, cs, slept, failAt) ==
    LET maxP == Get(mp1, Symbol, 0)
        m == MarketCloseOrder(position.amt)
        ok == failAt # "market"
    IN  IF ~DrawdownTriggered(maxP, position.pnl)
        THEN Outcome(bk, mp1, cs, FALSE, TRUE, FALSE, FALSE, slept, maxP)
        ELSE IF ~ok
        THEN Outcome(bk, mp1, cs \o <<CreateOf(m, FALSE)>>, TRUE, TRUE, TRUE, FALSE, slept,
                     maxP)
        ELSE Outcome(bk, Delete(mp1, Symbol), cs \o <<CreateOf(m, TRUE)>>,
                     FALSE, TRUE, TRUE, TRUE, slept, maxP)

\* the drawdown monitor at the end of checkProtectiveStopProfit
Monitor(position, bk, mp, cs, slept, failAt) ==
    ProtectiveClose(position, bk, UpdateMaxProfit(mp, position.pnl), cs, slept, failAt)

\* a faulty variant: the take-profit is placed only in a pass that places the stop-loss
PlaceLegsTogether(position, orders, mp, cs, slept, failAt, ro) ==
    LET amt == position.amt
        needSL == ~hasValidStopLoss(orders, amt)
        needTP == needSL /\ ~hasValidTakeProfit(orders, amt)
        sl == StopLossOrder(amt, position.entry)
        tp == TakeProfitOrder(amt, position.entry)
        slOk == failAt # "createSL"
        tpOk == failAt # "createTP"
        bk2 == IF needSL /\ slOk THEN Rest(orders, sl.typ, sl.side, sl.qty, ro) ELSE orders
        cs2 == IF needSL THEN cs \o <<CreateOf(sl, slOk)>> ELSE cs
        bk3 == IF needTP /\ tpOk THEN Rest(bk2, tp.typ, tp.side, tp.qty, ro) ELSE bk2
        cs3 == IF needTP THEN cs2 \o <<CreateOf(tp, tpOk)>> ELSE cs2
    IN  IF needSL /\ ~slOk
        THEN Outcome(bk2, mp, cs2, TRUE, FALSE, FALSE, FALSE, slept, 0)
        ELSE IF needTP /\ ~tpOk
        THEN Outcome(bk3, mp, cs3, TRUE, FALSE, FALSE, FALSE, slept, 0)
        ELSE Monitor(position, bk3, mp, cs3, slept, failAt)

\* a faulty variant: when either leg is missing both legs are placed
PlaceLegsBoth(position, orders, mp, cs, slept, failAt, ro) ==
    LET amt == position.amt
        needSL == ~hasValidStopLoss(orders, amt) \/ ~hasValidTakeProfit(orders, amt)
        needTP == needSL
        sl == StopLossOrder(amt, position.entry)
        tp == TakeProfitOrder(amt, position.entry)
        slOk == failAt # "createSL"
        tpOk == failAt # "createTP"
        bk2 == IF needSL /\ slOk THEN Rest(orders, sl.typ, sl.side, sl.qty, ro) ELSE orders
        cs2 == IF needSL THEN cs \o <<CreateOf(sl, slOk)>> ELSE cs
        bk3 == IF needTP /\ tpOk THEN Rest(bk2, tp.typ, tp.side, tp.qty, ro) ELSE bk2
        cs3 == IF needTP THEN cs2 \o <<CreateOf(tp, tpOk)>> ELSE cs2
    IN  IF needSL /\ ~slOk
        THEN Outcome(bk2, mp, cs2, TRUE, FALSE, FALSE, FALSE, slept, 0)
        ELSE IF needTP /\ ~tpOk
        THEN Outcome(bk3, mp, cs3, TRUE, FALSE, FALSE, FALSE, slept, 0)
        ELSE Monitor(position, bk3, mp, cs3, slept, failAt)

\* place the legs that are missing in `orders`, then run the monitor
PlaceLegs(position, orders, mp, cs, slept, failAt, ro) ==
    LET amt == position.amt
        needSL == ~hasValidStopLoss(orders, amt)
        needTP == ~hasValidTakeProfit(orders, amt)
        sl == StopLossOrder(amt, position.entry)
        tp == TakeProfitOrder(amt, position.entry)
        slOk == failAt # "createSL"
        tpOk == failAt # "createTP"
        bk2 == IF needSL /\ slOk THEN Rest(orders, sl.typ, sl.side, sl.qty, ro) ELSE orders
        cs2 == IF needSL THEN cs \o <<CreateOf(sl, slOk)>> ELSE cs
        bk3 == IF needTP /\ tpOk THEN Rest(bk2, tp.typ, tp.side, tp.qty, ro) ELSE bk2
        cs3 == IF needTP THEN cs2 \o <<CreateOf(tp, tpOk)>> ELSE cs2
    IN  IF needSL /\ ~slOk
        THEN Outcome(bk2, mp, cs2, TRUE, FALSE, FALSE, FALSE, slept, 0)
        ELSE IF needTP /\ ~tpOk
        THEN Outcome(bk3, mp, cs3, TRUE, FALSE, FALSE, FALSE, slept, 0)
        ELSE Monitor(position, bk3, mp, cs3, slept, failAt)

\* the position or the entry price differs from the remembered snapshot
PositionChanged(position, lastPos) ==
    LET last == Get(lastPos, Symbol, FlatPosition)
    IN  \/ Abs(last.amt - position.amt) > QtyTol
        \/ Abs(last.entry - position.entry) > PriceTol

\* checkProtectiveStopProfit(position).  failAt names the gateway call of this pass
\* that fails (every such failure returns at once, so at most one is observed);
\* failCancel is the set of order ids whose cancel is rejected
checkProtectiveStopProfit(position, bk, mp, lastPos, failAt, failCancel, ro) ==
    IF position.amt = 0
    THEN LET c == cancelAllTPSL(bk, 0, failAt # "cancelList", failCancel)
         IN  Outcome(c.book, Delete(mp, Symbol), c.calls, c.err, FALSE, FALSE, FALSE, 0, 0)
    ELSE IF failAt = "list"
    THEN Outcome(bk, mp, <<ListCall(FALSE, 0)>>, TRUE, FALSE, FALSE, FALSE, 0, 0)
    ELSE LET cs1 == <<ListCall(TRUE, BagCardinality(bk))>>
             c == cancelAllTPSL(bk, position.amt, failAt # "cancelList", failCancel)
         IN  IF ~PositionChanged(position, lastPos)
             THEN PlaceLegs(position, bk, mp, cs1, 0, failAt, ro)
             ELSE IF c.err
             THEN Outcome(bk, mp, cs1 \o c.calls, TRUE, FALSE, FALSE, FALSE, 0, 0)
             ELSE IF failAt = "relist"
             THEN Outcome(c.book, mp, cs1 \o c.calls \o <<ListCall(FALSE, 0)>>,
                          TRUE, FALSE, FALSE, FALSE, SettleSleep, 0)
             ELSE PlaceLegs(position, c.book, mp,
                            cs1 \o c.calls \o <<ListCall(TRUE, BagCardinality(c.book))>>,
                            SettleSleep, failAt, ro)


-----------------------------------------------------------------------------
(* The loop of part_003 and the venue around it *)

\* the gateway call of a pass on `pos` that fails, if any: the listing inside
\* cancelAllTPSL, the first listing, the listing after the cancels, a create
FailPoints(pos, lastPos) ==
    IF pos.amt = 0 THEN {"none", "cancelList"}
    ELSE {"none", "list", "createSL", "createTP", "market"}
         \cup (IF PositionChanged(pos, lastPos) THEN {"cancelList", "relist"} ELSE {})

\* resting orders that appear at the venue without the reconciler: a manual entry
\* order, protective orders sized for another quantity
ManualOrders ==
    { Order("LIMIT", "BUY", 100000, FALSE),
      Order("STOP_MARKET", "SELL", 250000, TRUE) }

\* report of the latest step.  kind: "init", "pass" (a loop iteration that ran
\* checkProtectiveStopProfit), "fetchfail", "venue" (a step of the environment);
\* repeat: the iteration followed, with no step of the environment in between, an
\* iteration on the same snapshot in which every gateway call succeeded
\* pos: the position the iteration worked on; mark: the local maxProfit its trigger
\* test read; retry: the iteration of part_003 followed, with no step of the
\* environment in between, an iteration on the same non-flat snapshot that returned
\* an error; streak: the number (counted up to 2) of ticks of part_001 in a row,
\* the first of them starting with no resting order, that worked on this same
\* non-flat position with every gateway call succeeding; first: in part_000 and
\* part_002, the number of calls of the log made up to the return of
\* checkProtectiveStopProfit; again: the iteration of part_003 or part_001 followed,
\* with no step in between, an iteration whose market close was rejected
Report(kind, pos, err, monitored, triggered, closed, fetched, repeat, mark) ==
    [kind |-> kind, pos |-> pos, err |-> err, monitored |-> monitored,
     triggered |-> triggered, closed |-> closed, fetched |-> fetched, repeat |-> repeat,
     mark |-> mark, retry |-> FALSE, streak |-> 0, first |-> 0, again |-> FALSE]

NoReport(kind) == Report(kind, FlatPosition, FALSE, FALSE, FALSE, FALSE, FALSE, FALSE, 0)

AllOk(cs) == \A i \in 1..Len(cs) : cs[i].ok

\* history: the iteration reported by rep triggered and its market close was rejected
CloseRejected(rep) == rep.kind = "pass" /\ rep.triggered /\ ~rep.closed

\* the cached snapshot is still valid (younger than 5 s)
CacheValid ==
    /\ Has(lastPosition, Symbol)
    /\ Has(lastUpdate, Symbol)
    /\ lastUpdate[Symbol] < CacheTTL

\* every stored age grows by d seconds (saturating at CacheTTL, beyond which ages are alike)
Aged(lu, d) == [s \in DOMAIN lu |-> Min(lu[s] + d, CacheTTL)]

\* the snapshot run() keeps from a successful position-risk answer `p`: the SOLUSDC
\* entry if its amount is not 0, else a synthesized flat position
Snapshot(p) == IF p.amt # 0 THEN p ELSE FlatPosition

\* the orders whose cancel a pass on `pos` can attempt
CancelScope(pos, lastPos, bk) ==
    IF pos.amt = 0 THEN CancelTargets(bk, 0)
    ELSE IF PositionChanged(pos, lastPos) THEN CancelTargets(bk, pos.amt)
    ELSE EmptyBag

\* history: the maximum the monitor has seen since the position opened
SeenAfter(pos, r) ==
    IF pos.amt = 0 \/ r.closed THEN EmptyMap
    ELSE IF ~r.monitored THEN seenMax
    ELSE LET old == Get(seenMax, Symbol, pos.pnl)
         IN  Put(seenMax, Symbol, IF pos.pnl > old THEN pos.pnl ELSE old)

\* the rest of one loop iteration once checkProtectiveStopProfit returned r
PassWith(pos, fetched, lastPos1, r) ==
    /\ maxProfit' = r.maxProfit
    /\ book' = r.book
    /\ lastPosition' = lastPos1
    /\ lastUpdate' = Put(lastUpdate, Symbol,
                         Min((IF fetched THEN 0 ELSE lastUpdate[Symbol]) + r.slept + TickSleep,
                             CacheTTL))
    /\ calls' = (IF fetched THEN <<FetchCall(TRUE)>> ELSE <<>>) \o r.calls
    /\ report' = [Report("pass", pos, r.err, r.monitored, r.triggered, r.closed, fetched,
                         /\ report.kind = "pass"
                         /\ ~report.err
                         /\ AllOk(calls)
                         /\ pos = report.pos,
                         r.mark)
                   EXCEPT !.retry = /\ report.kind = "pass"
                                    /\ report.err
                                    /\ pos.amt # 0
                                    /\ pos = report.pos,
                          !.again = CloseRejected(report)]
    /\ seenMax' = SeenAfter(pos, r)
    /\ closes' = Min((IF fetched THEN 0 ELSE closes) + (IF r.closed THEN 1 ELSE 0), 2)

\* run(): one iteration served from the cache
RunCached ==
    /\ variant = "p003"
    /\ running
    /\ CacheValid
    /\ \E failAt \in FailPoints(lastPosition[Symbol], lastPosition) :
       \E failCancel \in SubBag(CancelScope(lastPosition[Symbol], lastPosition, book)) :
       \E r \in {checkProtectiveStopProfit(lastPosition[Symbol], book, maxProfit,
                                           lastPosition, failAt, failCancel, venueRO)} :
          PassWith(lastPosition[Symbol], FALSE, lastPosition, r)
    /\ UNCHANGED <<env, phase, loop, bodies, others, variant, running, venueRO, positions>>

\* a faulty variant: the fetched snapshot is stored after checkProtectiveStopProfit
\* has returned, so that the pass compares it with the snapshot of the tick before
RunFetchStoresAfter(answers) ==
    /\ variant = "p003"
    /\ running
    /\ ~CacheValid
    /\ \E p \in answers \cup {FlatPosition} :
       LET pos == Snapshot(p)
           lastPos1 == Put(lastPosition, Symbol, pos)
       IN  \E failAt \in FailPoints(pos, lastPosition) :
           \E failCancel \in SubBag(CancelScope(pos, lastPosition, book)) :
           \E r \in {checkProtectiveStopProfit(pos, book, maxProfit, lastPosition,
                                               failAt, failCancel, venueRO)} :
              PassWith(pos, TRUE, lastPos1, r)
    /\ UNCHANGED <<env, phase, loop, bodies, others, variant, running, venueRO, positions>>

\* run(): one iteration that fetches the position from the venue
RunFetch(answers) ==
    /\ variant = "p003"
    /\ running
    /\ ~CacheValid
    /\ \E p \in answers \cup {FlatPosition} :
       LET pos == Snapshot(p)
           lastPos1 == Put(lastPosition, Symbol, pos)
       IN  \E failAt \in FailPoints(pos, lastPos1) :
           \E failCancel \in SubBag(CancelScope(pos, lastPos1, book)) :
           \E r \in {checkProtectiveStopProfit(pos, book, maxProfit, lastPos1,
                                               failAt, failCancel, venueRO)} :
              PassWith(pos, TRUE, lastPos1, r)
    /\ UNCHANGED <<env, phase, loop, bodies, others, variant, running, venueRO, positions>>

\* a faulty variant: a failed position-risk call resets the high-water marks
RunFetchFailsClears ==
    /\ variant = "p003"
    /\ running
    /\ ~CacheValid
    /\ calls' = <<FetchCall(FALSE)>>
    /\ report' = [NoReport("fetchfail") EXCEPT !.err = TRUE]
    /\ lastUpdate' = Aged(lastUpdate, FailSleep)
    /\ maxProfit' = EmptyMap
    /\ UNCHANGED <<env, phase, loop, bodies, others, variant, running, venueRO, positions, lastPosition, book, seenMax, closes>>

\* a faulty variant: the error of the position-risk call is returned from run()
RunFetchFailsReturns ==
    /\ variant = "p003"
    /\ running
    /\ ~CacheValid
    /\ calls' = <<FetchCall(FALSE)>>
    /\ report' = [NoReport("fetchfail") EXCEPT !.err = TRUE]
    /\ running' = FALSE
    /\ UNCHANGED <<env, phase, loop, bodies, others, variant, venueRO, positions, maxProfit, lastPosition, lastUpdate, book,
                   seenMax, closes>>

\* run(): the position-risk call fails: log, sleep 5 s, next iteration
RunFetchFails ==
    /\ variant = "p003"
    /\ running
    /\ ~CacheValid
    /\ calls' = <<FetchCall(FALSE)>>
    /\ report' = [NoReport("fetchfail") EXCEPT !.err = TRUE]
    /\ lastUpdate' = Aged(lastUpdate, FailSleep)
    /\ UNCHANGED <<env, phase, loop, bodies, others, variant, running, venueRO, positions, maxProfit, lastPosition, book, seenMax, closes>>

\* an order appears at the venue without the reconciler
VenuePlaces ==
    /\ BagCardinality(book) < MaxVenueBook
    /\ \E m \in ManualOrders : book' = Rest(book, m.type, m.side, m.qty, m.reduceOnly)
    /\ calls' = <<>>
    /\ report' = NoReport("venue")
    /\ UNCHANGED <<env, phase, loop, bodies, others, variant, running, venueRO, positions, maxProfit, lastPosition, lastUpdate, seenMax, closes>>

\* a resting order leaves the venue without the reconciler (filled, expired, cancelled by hand)
VenueRemoves ==
    /\ \E o \in BagToSet(book) : book' = book (-) SetToBag({o})
    /\ calls' = <<>>
    /\ report' = NoReport("venue")
    /\ UNCHANGED <<env, phase, loop, bodies, others, variant, running, venueRO, positions, maxProfit, lastPosition, lastUpdate, seenMax, closes>>

\* a second passes beyond the sleeps (slow calls)
TimePasses ==
    /\ Has(lastUpdate, Symbol)
    /\ lastUpdate[Symbol] < CacheTTL
    /\ lastUpdate' = Aged(lastUpdate, 1)
    /\ calls' = <<>>
    /\ report' = NoReport("venue")
    /\ UNCHANGED <<env, phase, loop, bodies, others, variant, running, venueRO, positions, maxProfit, lastPosition, book, seenMax, closes>>

-----------------------------------------------------------------------------
(* part_001: the ticker-driven variant with separate stop-loss and take-profit checks *)

\* what one of the two order checks returns
Checked(bk, cs, err, pm) == [book |-> bk, calls |-> cs, err |-> err, positions |-> pm]

\* the summed quantity of the orders of a sequence
RECURSIVE SumQty(_)
SumQty(os) == IF os = <<>> THEN 0 ELSE Head(os).qty + SumQty(Tail(os))

\* the total quantity of the listed orders of type typ
TotalQty(orders, typ) ==
    SumQty(BagSeq(SelectBag(orders, {o \in BagToSet(orders) : o.type = typ})))

\* cancelAllTPSL() of part_001: every LIMIT and every STOP_MARKET order is a target
CancelTargets001(orders) ==
    SelectBag(orders, {o \in BagToSet(orders) : o.type = "LIMIT" \/ o.type = "STOP_MARKET"})

cancelAllTPSL001(bk, listOk, failCancel) ==
    IF ~listOk
    THEN [book |-> bk, calls |-> <<ListCall(FALSE, 0)>>, err |-> TRUE]
    ELSE LET targets == CancelTargets001(bk)
         IN  [book |-> bk (-) (targets (-) failCancel),
              calls |-> <<ListCall(TRUE, BagCardinality(bk))>>
                        \o CancelCalls(targets, failCancel),
              err |-> FALSE]

\* the orders as sent by part_001: the price goes through roundToTickSize first
StopLossOrder001(amt, entryPrice) ==
    [typ |-> "STOP_MARKET", side |-> CloseSide(amt), posSide |-> ClosePositionSide(amt),
     qty |-> Fmt4(Abs(amt)),
     price |-> Fmt2(roundToTickSize(IF amt > 0 THEN entryPrice - StopOffset
                                               ELSE entryPrice + StopOffset, TickSize)),
     tif |-> "-"]

TakeProfitOrder001(amt, entryPrice) ==
    [typ |-> "LIMIT", side |-> CloseSide(amt), posSide |-> ClosePositionSide(amt),
     qty |-> Fmt4(Abs(amt)),
     price |-> Fmt2(roundToTickSize(IF amt > 0 THEN entryPrice + ProfitOffset
                                               ELSE entryPrice - ProfitOffset, TickSize)),
     tif |-> "GTC"]

\* a faulty variant: the function lists the open orders before it looks at the amount
CheckAndSet001Lists(position, bk, pm, order, record, fails, failCancel, ro) ==
    LET amt == position.amt
        typ == order.typ
        listOk == "list" \notin fails
        cancelListOk == "cancelList" \notin fails
        createOk == "create" \notin fails
        cs1 == <<ListCall(TRUE, BagCardinality(bk))>>
        mismatch == Abs(TotalQty(bk, typ) - Abs(amt)) > QtyTol
        c == cancelAllTPSL001(bk, cancelListOk, failCancel)
        has == \E o \in BagToSet(bk) : o.side = CloseSide(amt) /\ o.type = typ
        bk1 == IF mismatch THEN c.book ELSE bk
        cs2 == IF mismatch THEN cs1 \o c.calls ELSE cs1
        pm1 == IF mismatch /\ record THEN Put(pm, Symbol, amt) ELSE pm
    IN  IF ~listOk THEN Checked(bk, <<ListCall(FALSE, 0)>>, TRUE, pm)
        ELSE IF amt = 0 THEN Checked(bk, cs1, FALSE, pm)
        ELSE IF mismatch /\ c.err THEN Checked(bk, cs2, TRUE, pm)
        ELSE IF has THEN Checked(bk1, cs2, FALSE, pm1)
        ELSE IF ~createOk THEN Checked(bk1, cs2 \o <<CreateOf(order, FALSE)>>, TRUE, pm1)
        ELSE Checked(Rest(bk1, order.typ, order.side, order.qty, ro),
                     cs2 \o <<CreateOf(order, TRUE)>>, FALSE, pm1)

\* one of the two order checks of part_001 for the order type typ: list; when the
\* listed total of that type is not the position's quantity, cancel every protective
\* order (the stop-loss check also records the position size); then create the
\* order unless the first listing showed one of that type on the closing side
CheckAndSet001(position, bk, pm, order, record, fails, failCancel, ro) ==
    LET amt == position.amt
        typ == order.typ
        listOk == "list" \notin fails
        cancelListOk == "cancelList" \notin fails
        createOk == "create" \notin fails
        cs1 == <<ListCall(TRUE, BagCardinality(bk))>>
        mismatch == Abs(TotalQty(bk, typ) - Abs(amt)) > QtyTol
        c == cancelAllTPSL001(bk, cancelListOk, failCancel)
        has == \E o \in BagToSet(bk) : o.side = CloseSide(amt) /\ o.type = typ
        bk1 == IF mismatch THEN c.book ELSE bk
        cs2 == IF mismatch THEN cs1 \o c.calls ELSE cs1
        pm1 == IF mismatch /\ record THEN Put(pm, Symbol, amt) ELSE pm
    IN  IF amt = 0 THEN Checked(bk, <<>>, FALSE, pm)
        ELSE IF ~listOk THEN Checked(bk, <<ListCall(FALSE, 0)>>, TRUE, pm)
        ELSE IF mismatch /\ c.err THEN Checked(bk, cs2, TRUE, pm)
        ELSE IF has THEN Checked(bk1, cs2, FALSE, pm1)
        ELSE IF ~createOk THEN Checked(bk1, cs2 \o <<CreateOf(order, FALSE)>>, TRUE, pm1)
        ELSE Checked(Rest(bk1, order.typ, order.side, order.qty, ro),
                     cs2 \o <<CreateOf(order, TRUE)>>, FALSE, pm1)

checkAndSetTakeProfit001(position, bk, pm, failAt, failCancel, ro) ==
    CheckAndSet001(position, bk, pm, TakeProfitOrder001(position.amt, position.entry), FALSE,
                   {f \in {"list", "cancelList", "create"} : failAt = "tp" \o f},
                   failCancel, ro)

checkAndSetStopLoss001(position, bk, pm, failAt, failCancel, ro) ==
    CheckAndSet001(position, bk, pm, StopLossOrder001(position.amt, position.entry), TRUE,
                   {f \in {"list", "cancelList", "create"} : failAt = "sl" \o f},
                   failCancel, ro)

\* the high-water mark of part_001: seeded when there is no entry, raised otherwise
UpdateMaxProfit001(mp, unPnl) ==
    IF ~Has(mp, Symbol) THEN Put(mp, Symbol, unPnl)
    ELSE IF unPnl > mp[Symbol] THEN Put(mp, Symbol, unPnl)
    ELSE mp

\* checkProtectiveStopProfit of part_001: the monitor alone
checkProtectiveStopProfit001(position, bk, mp, failAt) ==
    IF position.amt = 0
    THEN Outcome(bk, Delete(mp, Symbol), <<>>, FALSE, FALSE, FALSE, FALSE, 0, 0)
    ELSE ProtectiveClose(position, bk, UpdateMaxProfit001(mp, position.pnl), <<>>, 0, failAt)

\* the calls of one order check of part_001 that can fail, given the book it lists:
\* its listing, the listing inside cancelAllTPSL, the cancels (every one rejected;
\* none once more than MaxVenueBook orders rest), the create
CheckFails001(position, bk, typ, pre) ==
    LET mismatch == Abs(TotalQty(bk, typ) - Abs(position.amt)) > QtyTol
        has == \E o \in BagToSet(bk) : o.side = CloseSide(position.amt) /\ o.type = typ
    IN  {pre \o "list"}
        \cup (IF mismatch THEN {pre \o "cancelList"} ELSE {})
        \cup (IF /\ mismatch
                 /\ CancelTargets001(bk) # EmptyBag
                 /\ BagCardinality(bk) <= MaxVenueBook
              THEN {pre \o "cancel"} ELSE {})
        \cup (IF ~has THEN {pre \o "create"} ELSE {})

\* the cancels rejected in a check of part_001 that lists bk
RejectedCancels001(bk, failAt, pre) ==
    IF failAt = pre \o "cancel" THEN CancelTargets001(bk) ELSE EmptyBag

\* the market close can fail only when the trigger fires
MonitorFails001(position, mp) ==
    IF DrawdownTriggered(Get(UpdateMaxProfit001(mp, position.pnl), Symbol, 0), position.pnl)
    THEN {"market"} ELSE {}

\* history: the streak of undisturbed ticks after a tick on p that was clean or not
Streak001(p, clean) ==
    IF ~clean THEN 0
    ELSE IF report.kind = "pass" /\ report.streak >= 1 /\ report.pos = p
    THEN Min(report.streak + 1, 2)
    ELSE IF book = EmptyBag THEN 1 ELSE 0

\* run() of part_001: one tick whose position-risk call answers.  The three checks
\* run only for a non-zero amount; each one's error is logged and the next one runs.
\* failAt names the gateway call of the tick that fails, if any
Tick001(answers) ==
    /\ variant = "p001"
    /\ running
    /\ \E p \in answers \cup {FlatPosition} :
       IF p.amt = 0
       THEN /\ calls' = <<FetchCall(TRUE)>>
            /\ report' = [NoReport("pass") EXCEPT !.fetched = TRUE]
            /\ seenMax' = EmptyMap
            /\ UNCHANGED <<maxProfit, book, positions>>
       ELSE \E f1 \in {"none"} \cup MonitorFails001(p, maxProfit)
                               \cup CheckFails001(p, book, "LIMIT", "tp") :
            \E m \in {checkProtectiveStopProfit001(p, book, maxProfit, f1)} :
            \E tp \in {checkAndSetTakeProfit001(p, book, positions, f1,
                                                RejectedCancels001(book, f1, "tp"),
                                                venueRO)} :
            \E failAt \in IF f1 # "none" THEN {f1}
                          ELSE {"none"} \cup CheckFails001(p, tp.book, "STOP_MARKET", "sl") :
            \E sl \in {checkAndSetStopLoss001(p, tp.book, tp.positions, failAt,
                                              RejectedCancels001(tp.book, failAt, "sl"),
                                              venueRO)} :
               /\ maxProfit' = m.maxProfit
               /\ book' = sl.book
               /\ positions' = sl.positions
               /\ calls' = <<FetchCall(TRUE)>> \o m.calls \o tp.calls \o sl.calls
               /\ report' = [Report("pass", p, m.err \/ tp.err \/ sl.err,
                                    m.monitored, m.triggered, m.closed, TRUE,
                                    FALSE, m.mark)
                              EXCEPT !.streak =
                                 Streak001(p, /\ ~(m.err \/ tp.err \/ sl.err)
                                              /\ AllOk(m.calls \o tp.calls \o sl.calls)),
                                     !.again = CloseRejected(report)]
               /\ seenMax' = SeenAfter(p, m)
    /\ UNCHANGED <<env, phase, loop, bodies, others, variant, running, venueRO, lastPosition, lastUpdate, closes>>

\* run() of part_001: the position-risk call fails: log, wait for the next tick
TickFetchFails001 ==
    /\ variant = "p001"
    /\ running
    /\ calls' = <<FetchCall(FALSE)>>
    /\ report' = [NoReport("fetchfail") EXCEPT !.err = TRUE]
    /\ UNCHANGED <<env, phase, loop, bodies, others, variant, running, venueRO, positions, maxProfit, lastPosition, lastUpdate, book,
                   seenMax, closes>>

-----------------------------------------------------------------------------
(* trader_ui.go: the checks the updater goroutine of the GUI runs in updatePositions *)

\* some listed LIMIT order is on the closing side of the position (any quantity)
hasTakeProfit(orders, amt) ==
    \E o \in BagToSet(orders) : o.side = CloseSide(amt) /\ o.type = "LIMIT"

\* some listed STOP_MARKET order is on the closing side of the position (any quantity)
hasStopLoss(orders, amt) ==
    \E o \in BagToSet(orders) : o.side = CloseSide(amt) /\ o.type = "STOP_MARKET"

\* one of the two order checks of the GUI: nothing for amount 0; else list, and
\* create the order unless the listing showed one of its type on the closing side
\* (`has`); no order is ever cancelled
CheckAndSetUi(position, bk, order, has, fails, ro) ==
    LET amt == position.amt
        cs1 == <<ListCall(TRUE, BagCardinality(bk))>>
    IN  IF amt = 0 THEN Checked(bk, <<>>, FALSE, EmptyMap)
        ELSE IF "list" \in fails THEN Checked(bk, <<ListCall(FALSE, 0)>>, TRUE, EmptyMap)
        ELSE IF has THEN Checked(bk, cs1, FALSE, EmptyMap)
        ELSE IF "create" \in fails
        THEN Checked(bk, cs1 \o <<CreateOf(order, FALSE)>>, TRUE, EmptyMap)
        ELSE Checked(Rest(bk, order.typ, order.side, order.qty, ro),
                     cs1 \o <<CreateOf(order, TRUE)>>, FALSE, EmptyMap)

\* TraderUI.checkAndSetTakeProfit(position)
checkAndSetTakeProfitUi(position, bk, failAt, ro) ==
    CheckAndSetUi(position, bk, TakeProfitOrder001(position.amt, position.entry),
                  hasTakeProfit(bk, position.amt),
                  {f \in {"list", "create"} : failAt = "tp" \o f}, ro)

\* TraderUI.checkAndSetStopLoss(position)
checkAndSetStopLossUi(position, bk, failAt, ro) ==
    CheckAndSetUi(position, bk, StopLossOrder001(position.amt, position.entry),
                  hasStopLoss(bk, position.amt),
                  {f \in {"list", "create"} : failAt = "sl" \o f}, ro)

\* TraderUI.checkProtectiveStopProfit(position): the entry is deleted for amount 0,
\* seeded when absent, raised otherwise; then the trigger test and the market close
checkProtectiveStopProfitUi(position, bk, mp, failAt) ==
    IF position.amt = 0
    THEN Outcome(bk, Delete(mp, Symbol), <<>>, FALSE, FALSE, FALSE, FALSE, 0, 0)
    ELSE ProtectiveClose(position, bk, UpdateMaxProfit001(mp, position.pnl), <<>>, 0, failAt)

\* the gateway calls of updatePositions that can fail on position p with book bk and
\* map mp: the market close, the listings and creates of the two checks, the
\* listing for the display
UiFails(p, bk, mp) ==
    IF p.amt = 0 THEN {}
    ELSE MonitorFails001(p, mp)
         \cup {"tplist", "sllist", "showlist"}
         \cup (IF ~hasTakeProfit(bk, p.amt) THEN {"tpcreate"} ELSE {})
         \cup (IF ~hasStopLoss(bk, p.amt) THEN {"slcreate"} ELSE {})

\* updatePositions() of the updater goroutine when the position-risk call answers:
\* for the entry of the symbol, whatever its amount, the monitor, the take-profit
\* check and the stop-loss check run, each error printed and the next check run;
\* for a non-zero amount the orders are listed once more for the display.  Without
\* an entry for the symbol nothing runs.  failAt names the gateway call that fails
updatePositions(answers) ==
    /\ variant = "ui"
    /\ running
    /\ \E p \in answers \cup {FlatPosition} :
       \E present \in IF p.amt = 0 THEN BOOLEAN ELSE {TRUE} :
       IF ~present
       THEN /\ calls' = <<FetchCall(TRUE)>>
            /\ report' = [NoReport("idle") EXCEPT !.fetched = TRUE]
            /\ seenMax' = EmptyMap
            /\ UNCHANGED <<maxProfit, book>>
       ELSE \E failAt \in {"none"} \cup UiFails(p, book, maxProfit) :
            \E m \in {checkProtectiveStopProfitUi(p, book, maxProfit, failAt)} :
            \E tp \in {checkAndSetTakeProfitUi(p, book, failAt, venueRO)} :
            \E sl \in {checkAndSetStopLossUi(p, tp.book, failAt, venueRO)} :
            \E show \in {IF p.amt = 0 THEN <<>>
                         ELSE <<ListCall(failAt # "showlist", 
                                         IF failAt # "showlist"
                                         THEN BagCardinality(sl.book) ELSE 0)>>} :
               /\ maxProfit' = m.maxProfit
               /\ book' = sl.book
               /\ calls' = <<FetchCall(TRUE)>> \o m.calls \o tp.calls \o sl.calls \o show
               /\ report' = Report("pass", p, m.err \/ tp.err \/ sl.err,
                                   m.monitored, m.triggered, m.closed, TRUE, FALSE, m.mark)
               /\ seenMax' = SeenAfter(p, m)
    /\ UNCHANGED <<env, phase, loop, bodies, others, variant, running, venueRO, positions, lastPosition, lastUpdate, closes>>

\* updatePositions(): the position-risk call fails: the error is returned and
\* printed by the goroutine, which sleeps and goes on
updatePositionsFails ==
    /\ variant = "ui"
    /\ running
    /\ calls' = <<FetchCall(FALSE)>>
    /\ report' = [NoReport("fetchfail") EXCEPT !.err = TRUE]
    /\ UNCHANGED <<env, phase, loop, bodies, others, variant, running, venueRO, positions, maxProfit, lastPosition, lastUpdate, book,
                   seenMax, closes>>

-----------------------------------------------------------------------------
(* part_000 and part_002: the variants that reset both legs together *)

\* time.Sleep(2 * time.Second) after cancelAllTPSL, so that the cancels settle
ResetSleep == 2

\* a faulty variant: limit orders are cancelled only when they are reduce-only
CancelTargets000ReduceOnly(orders) ==
    SelectBag(orders, {o \in BagToSet(orders) :
        (o.type = "LIMIT" /\ o.reduceOnly) \/ o.type = "STOP_MARKET"})

\* the orders cancelAllTPSL() of part_000 cancels: every LIMIT, every STOP_MARKET order
CancelTargets000(orders) ==
    SelectBag(orders, {o \in BagToSet(orders) : o.type = "LIMIT" \/ o.type = "STOP_MARKET"})

\* the orders cancelAllTPSL() of part_002 cancels: reduce-only LIMIT and STOP_MARKET orders
CancelTargets002(orders) ==
    SelectBag(orders, {o \in BagToSet(orders) :
        (o.type = "LIMIT" /\ o.reduceOnly) \/ o.type = "STOP_MARKET"})

\* the cancel targets of program v
CancelTargetsOf(v, orders) ==
    IF v = "p000" THEN CancelTargets000(orders) ELSE CancelTargets002(orders)

\* cancelAllTPSL() of program v: list, cancel every target; a rejected cancel is
\* logged and skipped, a failed listing is the only error
cancelAllTPSLOf(v, bk, listOk, failCancel) ==
    IF ~listOk
    THEN [book |-> bk, calls |-> <<ListCall(FALSE, 0)>>, err |-> TRUE]
    ELSE LET targets == CancelTargetsOf(v, bk)
         IN  [book |-> bk (-) (targets (-) failCancel),
              calls |-> <<ListCall(TRUE, BagCardinality(bk))>>
                        \o CancelCalls(targets, failCancel),
              err |-> FALSE]

\* a faulty variant: the stop-loss is created before the old orders are cancelled
JointResetCreatesFirst(position, c, cs, failAt, ro) ==
    LET sl == StopLossOrder(position.amt, position.entry)
        tp == TakeProfitOrder(position.amt, position.entry)
        bk1 == Rest(c.book, sl.typ, sl.side, sl.qty, ro)
    IN  IF c.err
        THEN [book |-> c.book, calls |-> cs \o c.calls, err |-> TRUE]
        ELSE IF failAt = "createSL"
        THEN [book |-> c.book, calls |-> cs \o <<CreateOf(sl, FALSE)>> \o c.calls, err |-> TRUE]
        ELSE IF failAt = "createTP"
        THEN [book |-> bk1,
              calls |-> cs \o <<CreateOf(sl, TRUE)>> \o c.calls \o <<CreateOf(tp, FALSE)>>,
              err |-> TRUE]
        ELSE [book |-> Rest(bk1, tp.typ, tp.side, tp.qty, ro),
              calls |-> cs \o <<CreateOf(sl, TRUE)>> \o c.calls \o <<CreateOf(tp, TRUE)>>,
              err |-> FALSE]

\* the reset of both legs, given what cancelAllTPSL() answered (c) and the calls made
\* so far (cs): the stop-loss is created, then the take-profit; the first failure
\* returns
JointReset(position, c, cs, failAt, ro) ==
    LET sl == StopLossOrder(position.amt, position.entry)
        tp == TakeProfitOrder(position.amt, position.entry)
        bk1 == Rest(c.book, sl.typ, sl.side, sl.qty, ro)
    IN  IF c.err
        THEN [book |-> c.book, calls |-> cs \o c.calls, err |-> TRUE]
        ELSE IF failAt = "createSL"
        THEN [book |-> c.book, calls |-> cs \o c.calls \o <<CreateOf(sl, FALSE)>>, err |-> TRUE]
        ELSE IF failAt = "createTP"
        THEN [book |-> bk1,
              calls |-> cs \o c.calls \o <<CreateOf(sl, TRUE), CreateOf(tp, FALSE)>>,
              err |-> TRUE]
        ELSE [book |-> Rest(bk1, tp.typ, tp.side, tp.qty, ro),
              calls |-> cs \o c.calls \o <<CreateOf(sl, TRUE), CreateOf(tp, TRUE)>>,
              err |-> FALSE]

\* a stop-market or a limit order with the position's quantity is missing
NeedsReset(orders, amt) == ~hasValidStopLoss(orders, amt) \/ ~hasValidTakeProfit(orders, amt)

\* checkProtectiveStopProfit(position) of part_000 and part_002 (program v)
checkProtectiveStopProfitJoint(v, position, bk, mp, failAt, failCancel, ro) ==
    IF position.amt = 0
    THEN LET c == cancelAllTPSLOf(v, bk, failAt # "cancelList", failCancel)
         IN  Outcome(c.book, Delete(mp, Symbol), c.calls, c.err, FALSE, FALSE, FALSE, 0, 0)
    ELSE IF failAt = "list"
    THEN Outcome(bk, mp, <<ListCall(FALSE, 0)>>, TRUE, FALSE, FALSE, FALSE, 0, 0)
    ELSE LET cs1 == <<ListCall(TRUE, BagCardinality(bk))>>
             r == JointReset(position,
                             cancelAllTPSLOf(v, bk, failAt # "cancelList", failCancel),
                             cs1, failAt, ro)
         IN  IF ~NeedsReset(bk, position.amt)
             THEN Monitor(position, bk, mp, cs1, 0, failAt)
             ELSE IF r.err
             THEN Outcome(r.book, mp, r.calls, TRUE, FALSE, FALSE, FALSE, 0, 0)
             ELSE Monitor(position, r.book, mp, r.calls, ResetSleep, failAt)

\* checkAndSetStopLoss(position) of part_000: list; when no stop-market order has the
\* position's quantity, cancel every protective order and create the stop-loss
checkAndSetStopLoss000(position, bk, failAt, failCancel, ro) ==
    LET amt == position.amt
        sl == StopLossOrder001(amt, position.entry)
        cs1 == <<ListCall(TRUE, BagCardinality(bk))>>
        c == cancelAllTPSLOf("p000", bk, failAt # "slcancelList", failCancel)
    IN  IF amt = 0 THEN Checked(bk, <<>>, FALSE, EmptyMap)
        ELSE IF failAt = "sllist" THEN Checked(bk, <<ListCall(FALSE, 0)>>, TRUE, EmptyMap)
        ELSE IF hasValidStopLoss(bk, amt) THEN Checked(bk, cs1, FALSE, EmptyMap)
        ELSE IF c.err THEN Checked(bk, cs1 \o c.calls, TRUE, EmptyMap)
        ELSE IF failAt = "slcreate"
        THEN Checked(c.book, cs1 \o c.calls \o <<CreateOf(sl, FALSE)>>, TRUE, EmptyMap)
        ELSE Checked(Rest(c.book, sl.typ, sl.side, sl.qty, ro),
                     cs1 \o c.calls \o <<CreateOf(sl, TRUE)>>, FALSE, EmptyMap)

\* the gateway calls of a joint pass of program v that can fail, given the book it
\* lists and the map: the listing, the listing inside cancelAllTPSL, the cancels
\* (every one rejected), the creates, the market close
FailsJoint(v, position, bk, mp) ==
    IF position.amt = 0
    THEN {"cancelList"} \cup (IF CancelTargetsOf(v, bk) # EmptyBag THEN {"cancel"} ELSE {})
    ELSE {"list"}
         \cup (IF NeedsReset(bk, position.amt)
               THEN {"cancelList", "createSL", "createTP"}
                    \cup (IF CancelTargetsOf(v, bk) # EmptyBag THEN {"cancel"} ELSE {})
               ELSE {})
         \cup (IF DrawdownTriggered(Get(UpdateMaxProfit(mp, position.pnl), Symbol, 0),
                                    position.pnl)
               THEN {"market"} ELSE {})

\* the cancels rejected in a pass of program v that lists bk
RejectedCancelsOf(v, bk, failAt, point) ==
    IF failAt = point THEN CancelTargetsOf(v, bk) ELSE EmptyBag

\* the gateway calls of checkAndSetStopLoss of part_000 that can fail
CheckFails000(position, bk) ==
    {"sllist"}
    \cup (IF ~hasValidStopLoss(bk, position.amt)
          THEN {"slcancelList", "slcreate"}
               \cup (IF CancelTargets000(bk) # EmptyBag THEN {"slcancel"} ELSE {})
          ELSE {})

\* run() of part_000: one tick whose position-risk call answers.  The two checks run
\* only for a non-zero amount; the error of the first is logged and the second runs.
\* failAt names the gateway call of the tick that fails, if any (ticks are followed
\* only while at most MaxVenueBook orders rest)
Tick000(answers) ==
    /\ variant = "p000"
    /\ running
    /\ BagCardinality(book) <= MaxVenueBook
    /\ \E p \in answers \cup {FlatPosition} :
       IF p.amt = 0
       THEN /\ calls' = <<FetchCall(TRUE)>>
            /\ report' = [NoReport("pass") EXCEPT !.fetched = TRUE]
            /\ UNCHANGED <<maxProfit, book>>
       ELSE \E f1 \in {"none"} \cup FailsJoint("p000", p, book, maxProfit) :
            \E m \in {checkProtectiveStopProfitJoint("p000", p, book, maxProfit, f1,
                          RejectedCancelsOf("p000", book, f1, "cancel"), venueRO)} :
            \E failAt \in IF f1 # "none" THEN {f1}
                          ELSE {"none"} \cup CheckFails000(p, m.book) :
            \E sl \in {checkAndSetStopLoss000(p, m.book, failAt,
                          RejectedCancelsOf("p000", m.book, failAt, "slcancel"), venueRO)} :
               /\ maxProfit' = m.maxProfit
               /\ book' = sl.book
               /\ calls' = <<FetchCall(TRUE)>> \o m.calls \o sl.calls
               /\ report' = [Report("pass", p, m.err \/ sl.err,
                                    m.monitored, m.triggered, m.closed, TRUE,
                                    FALSE, m.mark)
                              EXCEPT !.first = 1 + Len(m.calls)]
    /\ UNCHANGED <<env, phase, loop, bodies, others, variant, running, venueRO, positions, lastPosition, lastUpdate, seenMax, closes>>

\* run() of part_000: the position-risk call fails: log, wait for the next tick
TickFetchFails000 ==
    /\ variant = "p000"
    /\ running
    /\ calls' = <<FetchCall(FALSE)>>
    /\ report' = [NoReport("fetchfail") EXCEPT !.err = TRUE]
    /\ UNCHANGED <<env, phase, loop, bodies, others, variant, running, venueRO, positions, maxProfit, lastPosition, lastUpdate, book,
                   seenMax, closes>>

\* run() of part_002: one iteration whose position-risk call answers; the check runs
\* for the entry of the symbol, whatever its amount, and not at all without an entry
\* (iterations are followed only while at most MaxVenueBook orders rest)
Run002(answers) ==
    /\ variant = "p002"
    /\ running
    /\ BagCardinality(book) <= MaxVenueBook
    /\ \E p \in answers \cup {FlatPosition} :
       \E present \in IF p.amt = 0 THEN BOOLEAN ELSE {TRUE} :
       IF ~present
       THEN /\ calls' = <<FetchCall(TRUE)>>
            /\ report' = [NoReport("idle") EXCEPT !.fetched = TRUE]
            /\ UNCHANGED <<maxProfit, book>>
       ELSE \E failAt \in {"none"} \cup FailsJoint("p002", p, book, maxProfit) :
            \E r \in {checkProtectiveStopProfitJoint("p002", p, book, maxProfit, failAt,
                          RejectedCancelsOf("p002", book, failAt, "cancel"), venueRO)} :
               /\ maxProfit' = r.maxProfit
               /\ book' = r.book
               /\ calls' = <<FetchCall(TRUE)>> \o r.calls
               /\ report' = [Report("pass", p, r.err, r.monitored, r.triggered, r.closed,
                                    TRUE, FALSE, r.mark)
                              EXCEPT !.first = 1 + Len(r.calls)]
    /\ UNCHANGED <<env, phase, loop, bodies, others, variant, running, venueRO, positions, lastPosition, lastUpdate, seenMax, closes>>

\* run() of part_002: the position-risk call fails: log, sleep 5 s, next iteration
RunFetchFails002 ==
    /\ variant = "p002"
    /\ running
    /\ calls' = <<FetchCall(FALSE)>>
    /\ report' = [NoReport("fetchfail") EXCEPT !.err = TRUE]
    /\ UNCHANGED <<env, phase, loop, bodies, others, variant, running, venueRO, positions, maxProfit, lastPosition, lastUpdate, book,
                   seenMax, closes>>

-----------------------------------------------------------------------------
(* pkg/trading/trader.go: the Trader type, its methods called in any order *)

\* the answers of the position-risk listing for the symbol: an entry (possibly with
\* amount 0), or no entry at all
TraderAnswers == CalmPositions \cup {FlatPosition}
HasEntry == "entry"
NoEntry == "absent"
CallFails == "fails"

\* the prices a caller hands to SetStopLoss and SetTakeProfit
SetPrices == {49000, 52004}

\* what GetPosition leaves and returns; a nil position is returned together with an
\* error, and only then
Got(lp, lu, cs, ret, err) ==
    [lastPosition |-> lp, lastUpdate |-> lu, calls |-> cs, ret |-> ret, err |-> err]

\* a faulty variant: the gateway is asked whatever the age of the cached snapshot
GetPositionUncached(lp, lu, outcome, answer) ==
    IF outcome = CallFails THEN Got(lp, lu, <<FetchCall(FALSE)>>, FlatPosition, TRUE)
    ELSE IF outcome = NoEntry
    THEN Got(Put(lp, Symbol, FlatPosition), Put(lu, Symbol, 0), <<FetchCall(TRUE)>>,
             FlatPosition, TRUE)
    ELSE Got(Put(lp, Symbol, answer), Put(lu, Symbol, 0),
             <<[FetchCall(TRUE) EXCEPT !.n = 1]>>, answer, FALSE)

\* a faulty variant: a failed listing drops the cached snapshot
GetPositionForgets(lp, lu, outcome, answer) ==
    IF Has(lp, Symbol) /\ Has(lu, Symbol) /\ lu[Symbol] < CacheTTL
    THEN Got(lp, lu, <<>>, lp[Symbol], FALSE)
    ELSE IF outcome = CallFails
    THEN Got(Delete(lp, Symbol), Delete(lu, Symbol), <<FetchCall(FALSE)>>, FlatPosition, TRUE)
    ELSE IF outcome = NoEntry
    THEN Got(Put(lp, Symbol, FlatPosition), Put(lu, Symbol, 0), <<FetchCall(TRUE)>>,
             FlatPosition, TRUE)
    ELSE Got(Put(lp, Symbol, answer), Put(lu, Symbol, 0),
             <<[FetchCall(TRUE) EXCEPT !.n = 1]>>, answer, FALSE)

\* Trader.GetPosition(symbol); when the gateway is asked, its call fails, or its
\* listing has no entry for the symbol, or it has the entry `answer`
GetPosition(lp, lu, outcome, answer) ==
    IF Has(lp, Symbol) /\ Has(lu, Symbol) /\ lu[Symbol] < CacheTTL
    THEN Got(lp, lu, <<>>, lp[Symbol], FALSE)
    ELSE IF outcome = CallFails
    THEN Got(lp, lu, <<FetchCall(FALSE)>>, FlatPosition, TRUE)
    ELSE IF outcome = NoEntry
    THEN Got(Put(lp, Symbol, FlatPosition), Put(lu, Symbol, 0), <<FetchCall(TRUE)>>,
             FlatPosition, TRUE)
    ELSE Got(Put(lp, Symbol, answer), Put(lu, Symbol, 0),
             <<[FetchCall(TRUE) EXCEPT !.n = 1]>>, answer, FALSE)

\* the order Trader.SetStopLoss sends for a non-flat position
SetStopLossOrder(amt, stopPrice) ==
    [typ |-> "STOP_MARKET", side |-> IF amt < 0 THEN "BUY" ELSE "SELL",
     posSide |-> IF amt < 0 THEN "SHORT" ELSE "LONG",
     qty |-> Fmt4(Abs(amt)), price |-> Fmt2(stopPrice), tif |-> "-"]

\* a faulty variant: the take-profit of a short position sent on the SELL side
SetTakeProfitOrderSell(amt, price) ==
    [typ |-> "LIMIT", side |-> "SELL", posSide |-> IF amt < 0 THEN "SHORT" ELSE "LONG",
     qty |-> Fmt4(Abs(amt)), price |-> Fmt2(price), tif |-> "GTC"]

\* the order Trader.SetTakeProfit sends for a non-flat position
SetTakeProfitOrder(amt, price) ==
    [typ |-> "LIMIT", side |-> IF amt < 0 THEN "BUY" ELSE "SELL",
     posSide |-> IF amt < 0 THEN "SHORT" ELSE "LONG",
     qty |-> Fmt4(Abs(amt)), price |-> Fmt2(price), tif |-> "GTC"]

\* Trader.GetPosition called
TraderGetPosition ==
    /\ variant = "trader"
    /\ \E outcome \in {HasEntry, NoEntry, CallFails} : \E answer \in TraderAnswers :
       \E g \in {GetPosition(lastPosition, lastUpdate, outcome, answer)} :
          /\ lastPosition' = g.lastPosition
          /\ lastUpdate' = g.lastUpdate
          /\ calls' = g.calls
          /\ report' = Report("get", g.ret, g.err, FALSE, FALSE, FALSE, g.calls # <<>>,
                              FALSE, 0)
    /\ UNCHANGED <<env, phase, loop, bodies, others, variant, running, venueRO, positions, maxProfit, book, seenMax, closes>>

\* the common part of SetStopLoss and SetTakeProfit: nothing for amount 0, else
\* one create call (calls are made only while fewer than MaxVenueBook orders rest)
TraderSet(position, order) ==
    /\ BagCardinality(book) < MaxVenueBook
    /\ IF position.amt = 0
       THEN /\ calls' = <<>>
            /\ report' = Report("set", position, FALSE, FALSE, FALSE, FALSE, FALSE, FALSE, 0)
            /\ book' = book
       ELSE \E ok \in BOOLEAN :
            /\ calls' = <<CreateOf(order, ok)>>
            /\ report' = Report("set", position, ~ok, FALSE, FALSE, FALSE, FALSE, FALSE, 0)
            /\ book' = IF ok THEN Rest(book, order.typ, order.side, order.qty, venueRO)
                             ELSE book
    /\ UNCHANGED <<env, phase, loop, bodies, others, variant, running, venueRO, positions, maxProfit, lastPosition, lastUpdate,
                   seenMax, closes>>

\* Trader.SetStopLoss(symbol, position, stopPrice) called
TraderSetStopLoss ==
    /\ variant = "trader"
    /\ \E position \in TraderAnswers : \E stopPrice \in SetPrices :
          TraderSet(position, SetStopLossOrder(position.amt, stopPrice))

\* Trader.SetTakeProfit(symbol, position, price) called
TraderSetTakeProfit ==
    /\ variant = "trader"
    /\ \E position \in TraderAnswers : \E price \in SetPrices :
          TraderSet(position, SetTakeProfitOrder(position.amt, price))

\* Trader.PlaceOrder called for a LIMIT or a MARKET order of 1.0 at 100.00
TraderPlaceOrder ==
    /\ variant = "trader"
    /\ BagCardinality(book) < MaxVenueBook
    /\ \E side \in {"BUY", "SELL"} : \E orderType \in {"LIMIT", "MARKET"} :
       \E ok \in BOOLEAN :
          /\ calls' = <<CreateCall(ok, orderType, side, "-", Fmt4(100000),
                                   IF orderType = "LIMIT" THEN Fmt2(100000) ELSE 0,
                                   IF orderType = "LIMIT" THEN "GTC" ELSE "-")>>
          /\ report' = Report("place", FlatPosition, ~ok, FALSE, FALSE, FALSE, FALSE, FALSE, 0)
          /\ book' = IF ok /\ orderType = "LIMIT"
                     THEN Rest(book, orderType, side, Fmt4(100000), FALSE)
                     ELSE book
    /\ UNCHANGED <<env, phase, loop, bodies, others, variant, running, venueRO, positions, maxProfit, lastPosition, lastUpdate,
                   seenMax, closes>>

\* Trader.CancelAllOrders called
TraderCancelAllOrders ==
    /\ variant = "trader"
    /\ \E ok \in BOOLEAN :
          /\ calls' = <<Call("cancelAll", ok, 0, "-", "-", "-", 0, 0, "-")>>
          /\ report' = Report("cancelAll", FlatPosition, ~ok, FALSE, FALSE, FALSE, FALSE,
                              FALSE, 0)
          /\ book' = IF ok THEN EmptyBag ELSE book
    /\ UNCHANGED <<env, phase, loop, bodies, others, variant, running, venueRO, positions, maxProfit, lastPosition, lastUpdate,
                   seenMax, closes>>

-----------------------------------------------------------------------------
(* The cleanup and the order checks called on their own, with any argument *)

\* resting orders the listing may show besides those of ManualOrders: a market
\* order not yet filled, a reduce-only limit order for 1.0000
FrameOrders ==
    ManualOrders
    \cup { Order("MARKET", "SELL", 100000, TRUE),
           Order("LIMIT", "SELL", 100000, TRUE) }

\* an order of FrameOrders appears in the venue's listing
VenueShows ==
    /\ BagCardinality(book) < MaxVenueBook
    /\ \E m \in FrameOrders : book' = Rest(book, m.type, m.side, m.qty, m.reduceOnly)
    /\ calls' = <<>>
    /\ report' = NoReport("venue")
    /\ UNCHANGED <<env, phase, loop, bodies, others, variant, running, venueRO, positions, maxProfit, lastPosition, lastUpdate, seenMax, closes>>

\* the quantities handed to cancelAllTPSL(currentAmt) of part_003: none, long 1.0000,
\* short 2.5000
CurrentAmts == {0, 100000, -250000}

\* the report of a function called on its own with the position `pos`
Called(fn, pos, err) == Report(fn, pos, err, FALSE, FALSE, FALSE, FALSE, FALSE, 0)

\* cancelAllTPSL(currentAmt) of part_003 called
cancelAllTPSLCalled ==
    /\ variant = "p003"
    /\ \E currentAmt \in CurrentAmts : \E listOk \in BOOLEAN :
       \E failCancel \in IF listOk THEN SubBag(CancelTargets(book, currentAmt))
                                   ELSE {EmptyBag} :
       \E c \in {cancelAllTPSL(book, currentAmt, listOk, failCancel)} :
          /\ book' = c.book
          /\ calls' = c.calls
          /\ report' = Called("cancelAllTPSL", [FlatPosition EXCEPT !.amt = currentAmt], c.err)
    /\ UNCHANGED <<env, phase, loop, bodies, others, variant, running, venueRO, positions, maxProfit, lastPosition, lastUpdate, seenMax, closes>>

\* cancelAllTPSL() of part_002 called
cancelAllTPSLCalled002 ==
    /\ variant = "p002"
    /\ \E listOk \in BOOLEAN :
       \E failCancel \in IF listOk THEN SubBag(CancelTargets002(book)) ELSE {EmptyBag} :
       \E c \in {cancelAllTPSLOf("p002", book, listOk, failCancel)} :
          /\ book' = c.book
          /\ calls' = c.calls
          /\ report' = Called("cancelAllTPSL", FlatPosition, c.err)
    /\ UNCHANGED <<env, phase, loop, bodies, others, variant, running, venueRO, positions, maxProfit, lastPosition, lastUpdate, seenMax, closes>>

\* the positions handed to the order checks called on their own
CheckedPositions == CalmPositions \cup {FlatPosition}

\* checkAndSetTakeProfit(position) of part_001 called
checkAndSetTakeProfitCalled ==
    /\ variant = "p001"
    /\ BagCardinality(book) <= MaxVenueBook
    /\ \E position \in CheckedPositions :
       \E failAt \in {"none"} \cup CheckFails001(position, book, "LIMIT", "tp") :
       \E c \in {checkAndSetTakeProfit001(position, book, positions, failAt,
                                          RejectedCancels001(book, failAt, "tp"), venueRO)} :
          /\ book' = c.book
          /\ positions' = c.positions
          /\ calls' = c.calls
          /\ report' = Called("checkAndSetTakeProfit", position, c.err)
    /\ UNCHANGED <<env, phase, loop, bodies, others, variant, running, venueRO, maxProfit, lastPosition, lastUpdate, seenMax, closes>>

\* checkAndSetStopLoss(position) of part_001 called
checkAndSetStopLossCalled ==
    /\ variant = "p001"
    /\ BagCardinality(book) <= MaxVenueBook
    /\ \E position \in CheckedPositions :
       \E failAt \in {"none"} \cup CheckFails001(position, book, "STOP_MARKET", "sl") :
       \E c \in {checkAndSetStopLoss001(position, book, positions, failAt,
                                        RejectedCancels001(book, failAt, "sl"), venueRO)} :
          /\ book' = c.book
          /\ positions' = c.positions
          /\ calls' = c.calls
          /\ report' = Called("checkAndSetStopLoss", position, c.err)
    /\ UNCHANGED <<env, phase, loop, bodies, others, variant, running, venueRO, maxProfit, lastPosition, lastUpdate, seenMax, closes>>

\* checkAndSetStopLoss(position) of part_000 called
checkAndSetStopLossCalled000 ==
    /\ variant = "p000"
    /\ BagCardinality(book) <= MaxVenueBook
    /\ \E position \in CheckedPositions :
       \E failAt \in {"none"} \cup CheckFails000(position, book) :
       \E c \in {checkAndSetStopLoss000(position, book, failAt,
                    RejectedCancelsOf("p000", book, failAt, "slcancel"), venueRO)} :
          /\ book' = c.book
          /\ calls' = c.calls
          /\ report' = Called("checkAndSetStopLoss", position, c.err)
    /\ UNCHANGED <<env, phase, loop, bodies, others, variant, running, venueRO, positions, maxProfit, lastPosition, lastUpdate, seenMax, closes>>

-----------------------------------------------------------------------------
(* main() of part_003 *)

\* what the two environment variables may hold at the start
Envs == [apiKey : {"", "key"}, secretKey : {"", "secret"}]

\* a faulty variant: the start is refused only when both keys are empty
KeysMissingBoth(e) == e.apiKey = "" /\ e.secretKey = ""

\* apiKey == "" || secretKey == ""
KeysMissing(e) == e.apiKey = "" \/ e.secretKey = ""

\* main(): log.Fatal when a key is missing, else NewTraderCLI and run()
Main ==
    /\ variant = "p003"
    /\ phase = "main"
    /\ IF KeysMissing(env)
       THEN phase' = "fatal" /\ running' = FALSE
       ELSE phase' = "run" /\ running' = TRUE
    /\ calls' = <<>>
    /\ report' = NoReport("main")
    /\ UNCHANGED <<env, loop, bodies, others, variant, venueRO, positions, maxProfit,
                   lastPosition, lastUpdate, book, seenMax, closes>>

-----------------------------------------------------------------------------
(* The loops step by step: run() of part_003 and the updater goroutine of
   trader_ui.go.  A gateway call takes two steps, its issue and its return; an
   update of a map takes one. *)

\* ticks followed
MaxTicks == 3

\* what a tick body may do, in the order of the code; each operation may be skipped
\* (a branch not taken) and the body may end after any of them (an error returned)
BodyOps(v) ==
    IF v = "p003"
    THEN <<"positionRisk", "cache", "unmark", "list", "cancel", "createSL", "createTP",
           "mark", "market", "unmark">>
    ELSE <<"price", "positionRisk", "mark", "market", "unmark", "list", "createTP",
           "list", "createSL", "list", "list">>

\* the operations that are updates of maxProfit or of the position cache
IsWrite(op) == op \in {"cache", "mark", "unmark"}

\* a faulty variant: the body is started as a goroutine of its own and the loop goes on
AfterStartDetached == "sleep"

\* where the loop is once a tick body has begun: the body is part of the loop's own
\* goroutine, the sleep comes after it
AfterStart == "body"

\* the state outside the loops
data == <<env, phase, variant, running, venueRO, maxProfit, lastPosition, positions,
          lastUpdate, book, calls, report, seenMax, closes>>

\* the loop begins its next tick
TickStarts ==
    /\ loop.pc = "top"
    /\ loop.n < MaxTicks
    /\ bodies' = bodies \cup {[n |-> loop.n + 1, at |-> 0, busy |-> FALSE]}
    /\ loop' = [pc |-> AfterStart, n |-> loop.n + 1]
    /\ UNCHANGED <<others, data>>

\* a tick body issues its next gateway call
BodyIssues ==
    /\ \E b \in bodies : \E k \in (b.at + 1)..Len(BodyOps(variant)) :
          /\ ~b.busy
          /\ ~IsWrite(BodyOps(variant)[k])
          /\ bodies' = (bodies \ {b}) \cup {[n |-> b.n, at |-> k, busy |-> TRUE]}
    /\ UNCHANGED <<loop, others, data>>

\* the gateway call of a tick body returns
BodyReturns ==
    /\ \E b \in bodies :
          /\ b.busy
          /\ bodies' = (bodies \ {b}) \cup {[b EXCEPT !.busy = FALSE]}
    /\ UNCHANGED <<loop, others, data>>

\* a tick body updates maxProfit or the position cache
BodyWrites ==
    /\ \E b \in bodies : \E k \in (b.at + 1)..Len(BodyOps(variant)) :
          /\ ~b.busy
          /\ IsWrite(BodyOps(variant)[k])
          /\ bodies' = (bodies \ {b}) \cup {[b EXCEPT !.at = k]}
    /\ UNCHANGED <<loop, others, data>>

\* a tick body is over; the loop, when it was running the body, goes to its sleep
BodyEnds ==
    /\ \E b \in bodies :
          /\ ~b.busy
          /\ bodies' = bodies \ {b}
          /\ loop' = IF loop.pc = "body" /\ loop.n = b.n
                     THEN [loop EXCEPT !.pc = "sleep"] ELSE loop
    /\ UNCHANGED <<others, data>>

\* time.Sleep at the end of the iteration
LoopSleeps ==
    /\ loop.pc = "sleep"
    /\ loop' = [loop EXCEPT !.pc = "top"]
    /\ UNCHANGED <<bodies, others, data>>

\* trader_ui.go: the candle goroutine or a callback of the form issues a gateway
\* call, or that call returns
OtherCalls ==
    /\ variant = "ui"
    /\ \E g \in {"klines", "form"} :
          others' = IF g \in others THEN others \ {g} ELSE others \cup {g}
    /\ UNCHANGED <<loop, bodies, data>>

-----------------------------------------------------------------------------
(* Specifications *)

\* the maps, the venue and the history at the start of the program
InitData ==
    /\ loop = [pc |-> "top", n |-> 0]
    /\ bodies = {}
    /\ others = {}
    /\ venueRO \in VenueReduceOnly
    /\ maxProfit = EmptyMap
    /\ lastPosition = EmptyMap
    /\ positions = EmptyMap
    /\ lastUpdate = EmptyMap
    /\ book = EmptyBag
    /\ calls = <<>>
    /\ report = NoReport("init")
    /\ seenMax = EmptyMap
    /\ closes = 0

\* main() has found both keys and run() has entered its loop
InitCommon ==
    /\ env = [apiKey |-> "key", secretKey |-> "secret"]
    /\ phase = "run"
    /\ running = TRUE
    /\ InitData

Init == variant = "p003" /\ InitCommon

\* a calm market, an account on which other parties place and remove orders too
Next ==
    \/ RunCached
    \/ RunFetch(CalmPositions)
    \/ RunFetchFails
    \/ VenuePlaces
    \/ VenueRemoves
    \/ TimePasses

Spec == Init /\ [][Next]_vars

\* a moving market, an account on which only the reconciler places orders
NextMon ==
    \/ RunCached
    \/ RunFetch(MovingPositions)
    \/ RunFetchFails
    \/ VenueRemoves
    \/ TimePasses

SpecMon == Init /\ [][NextMon]_vars

InitTick == variant \in {"p003", "p001"} /\ InitCommon

\* a moving market, either program running
NextTick ==
    \/ RunCached
    \/ RunFetch(MovingPositions)
    \/ RunFetchFails
    \/ Tick001(MovingPositions)
    \/ TickFetchFails001
    \/ VenueRemoves
    \/ TimePasses

SpecTick == InitTick /\ [][NextTick]_vars

InitApi == variant \in {"p003", "trader"} /\ InitCommon

\* a calm market, the loop of part_003 or a caller of the Trader methods
NextApi ==
    \/ RunCached
    \/ RunFetch(CalmPositions)
    \/ RunFetchFails
    \/ TraderGetPosition
    \/ TraderSetStopLoss
    \/ TraderSetTakeProfit
    \/ TraderPlaceOrder
    \/ TraderCancelAllOrders
    \/ VenuePlaces
    \/ VenueRemoves
    \/ TimePasses

SpecApi == InitApi /\ [][NextApi]_vars

\* position-risk entries for the joint variants: long 1.0000 at 100.00 with a profit
\* of 0, 200 or 100, short 2.5000 at 50.00
JointPositions ==
    {[amt |-> 100000, entry |-> 100000, pnl |-> u] : u \in {0, 100, 200}}
    \cup {[amt |-> -250000, entry |-> 50000, pnl |-> 0]}

InitJoint == variant \in {"p000", "p002"} /\ InitCommon

\* part_000 or part_002 running on an account on which other parties place and
\* remove orders too
NextJoint ==
    \/ Tick000(JointPositions)
    \/ TickFetchFails000
    \/ Run002(JointPositions)
    \/ RunFetchFails002
    \/ VenuePlaces
    \/ VenueRemoves

SpecJoint == InitJoint /\ [][NextJoint]_vars

InitMain ==
    /\ variant = "p003"
    /\ env \in Envs
    /\ phase = "main"
    /\ running = FALSE
    /\ InitData

\* part_003 from the start of main(), a calm market
NextMain ==
    \/ Main
    \/ RunCached
    \/ RunFetch(CalmPositions)
    \/ RunFetchFails
    \/ VenueRemoves
    \/ TimePasses

SpecMain == InitMain /\ [][NextMain]_vars

\* position-risk entries of a long position of 1.0000 at 100.00 in loss, at 0 and in
\* profit
MarkPositions ==
    {[amt |-> 100000, entry |-> 100000, pnl |-> u] : u \in {-50, 0, 140, 300}}

\* position-risk entries for the GUI: the long position, a short position of 1.00004
\* at 100.004 and one of 2.5000 at 50.00
GuiPositions ==
    MarkPositions
    \cup {[amt |-> -100004, entry |-> 100004, pnl |-> 0],
          [amt |-> -250000, entry |-> 50000, pnl |-> 140]}

InitGui == variant \in {"p001", "ui"} /\ InitCommon

\* the two programs whose monitor tests whether the map has an entry: part_001 and
\* the updater goroutine of the GUI, on an account whose orders may leave the venue
NextGui ==
    \/ Tick001(MarkPositions)
    \/ TickFetchFails001
    \/ updatePositions(GuiPositions)
    \/ updatePositionsFails
    \/ VenueRemoves

SpecGui == InitGui /\ [][NextGui]_vars

\* the position-risk entry of the runs around the cleanup: long 1.0000 at 100.00
FramePositions == {[amt |-> 100000, entry |-> 100000, pnl |-> 0]}

InitFrame == variant \in {"p003", "p002"} /\ InitCommon

\* part_003 or part_002 running, their cleanup also called on its own, on an account
\* whose listing shows orders of every kind
NextFrame ==
    \/ RunCached
    \/ RunFetch(FramePositions)
    \/ RunFetchFails
    \/ Run002(FramePositions)
    \/ RunFetchFails002
    \/ cancelAllTPSLCalled
    \/ cancelAllTPSLCalled002
    \/ VenueShows
    \/ VenueRemoves

SpecFrame == InitFrame /\ [][NextFrame]_vars

InitCalled == variant \in {"trader", "p001", "p000"} /\ InitCommon

\* the setters of trader.go and the order checks of part_001 and part_000, each
\* called on its own with any position, the flat one included
NextCalled ==
    \/ TraderSetStopLoss
    \/ TraderSetTakeProfit
    \/ checkAndSetTakeProfitCalled
    \/ checkAndSetStopLossCalled
    \/ checkAndSetStopLossCalled000
    \/ VenuePlaces
    \/ VenueRemoves

SpecCalled == InitCalled /\ [][NextCalled]_vars

InitSerial == variant \in {"p003", "ui"} /\ InitCommon

\* the loop of part_003 or the goroutines of trader_ui.go, step by step
NextSerial ==
    \/ TickStarts
    \/ BodyIssues
    \/ BodyReturns
    \/ BodyWrites
    \/ BodyEnds
    \/ LoopSleeps
    \/ OtherCalls

SpecSerial == InitSerial /\ [][NextSerial]_vars



-----------------------------------------------------------------------------
(* Vocabulary of the properties *)

\* quantity q is within 0.0001 of the absolute quantity of amt
Within(q, amt) == Abs(q - Abs(amt)) <= 10

\* number of resting orders of type typ
Resting(bk, typ) == BagCardinality(SelectBag(bk, {o \in BagToSet(bk) : o.type = typ}))

\* the latest step was a loop iteration of `v` that ran its checks on a non-flat position
PassedOpen(v) == variant = v /\ report.kind = "pass" /\ report.pos.amt # 0

\* the calls of log cs with operation op
CallsOf(cs, op) == SelectSeq(cs, LAMBDA c : c.op = op)
\* the create calls of log cs for orders of type typ
Creates(cs, typ) == SelectSeq(cs, LAMBDA c : c.op = "create" /\ c.typ = typ)

\* every call of the iteration succeeded and no error was returned
Clean(cs, rep) == AllOk(cs) /\ ~rep.err

\* the book holds exactly one stop-market and one limit order, both sized for amt
OneLegEach(bk, amt) ==
    /\ Resting(bk, "STOP_MARKET") = 1
    /\ Resting(bk, "LIMIT") = 1
    /\ \A o \in BagToSet(bk) : o.type \in {"STOP_MARKET", "LIMIT"} => Within(o.qty, amt)

-----------------------------------------------------------------------------
(* C1: part_003, a pass on a non-flat position that finds no resting order and in
   which every gateway call succeeds leaves exactly one stop-market order and
   exactly one limit order resting, each with a quantity within 0.0001 of the
   position's absolute quantity. *)
C1_Coverage ==
    [][ (PassedOpen("p003")' /\ Clean(calls', report') /\ book = EmptyBag)
        => OneLegEach(book', report'.pos.amt) ]_vars

\* a clean pass on the short 1.00004 whose listing answered no order has placed both legs
C1_Witness ==
    /\ PassedOpen("p003")
    /\ Clean(calls, report)
    /\ report.pos.amt = -100004
    /\ Len(CallsOf(calls, "list")) = 1
    /\ CallsOf(calls, "list")[1].n = 0
    /\ Len(CallsOf(calls, "create")) = 2
    /\ OneLegEach(book, report.pos.amt)

(* C2: part_003, after every pass on a non-flat position in which all gateway
   calls succeed, whatever the book was before, the book holds exactly one
   stop-loss and one take-profit, each within 0.0001 of the absolute quantity,
   and no other limit or stop order. *)
C2_TargetConfiguration ==
    (PassedOpen("p003") /\ Clean(calls, report))
    => (OneLegEach(book, report.pos.amt) /\ BagCardinality(book) = 2)

(* C3: part_003, when the quantity of the position differs from the one of the
   snapshot remembered from the previous iteration by more than 0.0001, or the
   entry price by more than 0.01, the pass
   cancels the protective orders and lists the open orders again before it
   decides which legs to place (seen in a clean pass as further listings after
   the first). *)
C3_ChangeResets ==
    [][ ( /\ PassedOpen("p003")'
          /\ Clean(calls', report')
          /\ Has(lastPosition, Symbol)
          /\ \/ Abs(lastPosition[Symbol].amt - report'.pos.amt) > 10
             \/ Abs(lastPosition[Symbol].entry - report'.pos.entry) > 10 )
        => Len(CallsOf(calls', "list")) >= 3 ]_vars

(* C4: part_003, a pass that directly follows a clean pass on the same snapshot,
   with no change of the book in between, and is clean itself, issues no cancel
   call and no create call. *)
C4_Idempotent ==
    [][ (variant' = "p003" /\ report'.kind = "pass" /\ report'.repeat
         /\ Clean(calls', report'))
        => (CallsOf(calls', "cancel") = <<>> /\ CallsOf(calls', "create") = <<>>) ]_vars

\* a second clean pass in a row on the short 1.00004, after the legs were placed
C4_Witness ==
    /\ PassedOpen("p003")
    /\ report.repeat
    /\ Clean(calls, report)
    /\ report.pos.amt = -100004
    /\ OneLegEach(book, report.pos.amt)
    /\ CallsOf(calls, "create") = <<>>

(* C5: part_003 (the sentinel update), while the position stays open and the
   protective close has not been accepted, maxProfit[symbol] after each iteration
   that reached the monitor equals the maximum unrealized PnL the monitor has
   observed so far, also when an observation is exactly 0 and a later one is
   negative. *)
C5_HighWaterMark ==
    (variant = "p003" /\ Has(seenMax, Symbol))
    => (Has(maxProfit, Symbol) /\ maxProfit[Symbol] = seenMax[Symbol])

(* C6: part_001 (ticker-driven run), maxProfit[symbol] does not decrease from one
   tick on an open position to the next, and after a tick that found the position
   flat the map has no entry for the symbol, so that the first observation of the
   next position is its own high-water mark. *)
C6_MarkLifecycle ==
    [][ (variant' = "p001" /\ report'.kind = "pass")
        => /\ report'.pos.amt = 0 => ~Has(maxProfit', Symbol)
           /\ (report'.pos.amt # 0 /\ ~report'.closed /\ Has(maxProfit, Symbol))
              => (Has(maxProfit', Symbol) /\ maxProfit'[Symbol] >= maxProfit[Symbol])
           /\ (report'.pos.amt # 0 /\ report.kind = "pass" /\ report.pos.amt = 0)
              => report'.mark = report'.pos.pnl ]_vars

(* C7: part_003 and part_001, in every iteration in which the monitor is reached for
   a non-flat position, a market close is issued if and only if the high-water mark
   after the update is at least 200 and the unrealized PnL is at most half of it;
   the order issued is a single MARKET order on the closing side (SELL for a long,
   BUY for a short position) for the position's absolute quantity. *)
C7_TriggerIff ==
    [][ (report'.kind = "pass" /\ report'.monitored /\ report'.pos.amt # 0)
        => LET amt == report'.pos.amt
               mk == Creates(calls', "MARKET")
           IN  /\ ~report'.closed
                  => (Has(maxProfit', Symbol) /\ maxProfit'[Symbol] = report'.mark)
               /\ (mk # <<>>) <=> (report'.mark >= 200 /\ 2 * report'.pos.pnl <= report'.mark)
               /\ Len(mk) <= 1
               /\ \A i \in 1..Len(mk) :
                     /\ mk[i].side = (IF amt > 0 THEN "SELL" ELSE "BUY")
                     /\ 2 * Abs(mk[i].qty - Abs(amt)) <= 10 ]_vars

\* part_001 closes a long position whose PnL fell to exactly half of a mark of 200
C7_Witness ==
    /\ variant = "p001" /\ report.kind = "pass" /\ report.monitored
    /\ report.mark = 200 /\ report.pos.pnl = 100 /\ report.pos.amt = 100000
    /\ Len(Creates(calls, "MARKET")) = 1
    /\ Creates(calls, "MARKET")[1].side = "SELL"
    /\ Creates(calls, "MARKET")[1].qty = 100000
    /\ report.closed /\ ~Has(maxProfit, Symbol)

(* C8: part_003 with the 5-second cache, when the trigger fires for a snapshot and
   the venue accepts the close, one market close is issued in that iteration and
   maxProfit[symbol] is deleted; the iterations that re-evaluate the same cached
   snapshot afterwards issue no market close, so that a snapshot sees at most one
   accepted close. *)
C8_ClosedOnce ==
    [][ (variant' = "p003" /\ report'.kind = "pass")
        => /\ (report'.triggered /\ report'.closed)
              => /\ Len(Creates(calls', "MARKET")) = 1
                 /\ 2 * Abs(Creates(calls', "MARKET")[1].qty - Abs(report'.pos.amt)) <= 10
                 /\ ~Has(maxProfit', Symbol)
           /\ (closes >= 1 /\ ~report'.fetched) => Creates(calls', "MARKET") = <<>>
           /\ closes' <= 1 ]_vars

\* the snapshot with PnL 140 was closed against a mark of 300 and is re-evaluated
\* from the cache: the monitor is reached, reads a mark of 140 and issues nothing
C8_Witness ==
    /\ variant = "p003" /\ report.kind = "pass" /\ ~report.fetched /\ closes = 1
    /\ report.monitored /\ report.pos.pnl = 140 /\ report.mark = 140
    /\ Creates(calls, "MARKET") = <<>>
    /\ Has(maxProfit, Symbol) /\ maxProfit[Symbol] = 140

(* C9: part_003, every iteration on a non-flat position reaches the drawdown check
   (the update of the high-water mark and the trigger test), whether or not the
   listing of the open orders and the placement of the legs succeeded. *)
C9_MonitorAlways ==
    [][ PassedOpen("p003")' => report'.monitored ]_vars

(* C10: part_003, when both legs are missing and the placement of the stop-loss
   fails, the take-profit is still attempted in the same pass and the failure
   is reported to the caller. *)
C10_OtherLegAttempted ==
    [][ ( /\ PassedOpen("p003")'
          /\ \A o \in BagToSet(book) :
                o.type \in {"STOP_MARKET", "LIMIT"} => ~Within(o.qty, report'.pos.amt)
          /\ \E i \in 1..Len(calls') :
                calls'[i].op = "create" /\ calls'[i].typ = "STOP_MARKET" /\ ~calls'[i].ok )
        => (Creates(calls', "LIMIT") # <<>> /\ report'.err) ]_vars


(* C11: part_003, after a pass on a non-flat position in which every gateway call
   succeeded, every resting order that the pass accepts as the valid stop-loss or
   the valid take-profit (a STOP_MARKET or LIMIT order with the position's
   quantity) is on the closing side: SELL for a long, BUY for a short position. *)
C11_ClosingSide ==
    (PassedOpen("p003") /\ Clean(calls, report))
    => \A o \in BagToSet(book) :
          (o.type \in {"STOP_MARKET", "LIMIT"} /\ Within(o.qty, report.pos.amt))
          => o.side = (IF report.pos.amt > 0 THEN "SELL" ELSE "BUY")

(* C12: every stop-loss and take-profit order sent (by the reconciler of part_003,
   by Trader.SetStopLoss and Trader.SetTakeProfit) is SELL with position side LONG
   for a long position and BUY with position side SHORT for a short position; the
   prices the reconciler computes satisfy stop < entry < take-profit for a long
   and take-profit < entry < stop for a short position. *)
C12_Direction ==
    [][ report'.kind \in {"pass", "set"}
        => \A i \in 1..Len(calls') :
              LET c == calls'[i]
                  amt == report'.pos.amt
                  entry == report'.pos.entry
              IN  (c.op = "create" /\ c.typ \in {"STOP_MARKET", "LIMIT"})
                  => /\ amt # 0
                     /\ c.side = (IF amt > 0 THEN "SELL" ELSE "BUY")
                     /\ c.posSide = (IF amt > 0 THEN "LONG" ELSE "SHORT")
                     /\ (report'.kind = "pass" /\ c.typ = "STOP_MARKET")
                        => (IF amt > 0 THEN c.price < entry ELSE c.price > entry)
                     /\ (report'.kind = "pass" /\ c.typ = "LIMIT")
                        => (IF amt > 0 THEN c.price > entry ELSE c.price < entry) ]_vars

\* part_003 placed both legs for the short position of 1.00004 at entry 100.004
C12_Witness ==
    /\ PassedOpen("p003") /\ report.pos.amt = -100004 /\ report.pos.entry = 100004
    /\ Len(Creates(calls, "STOP_MARKET")) = 1 /\ Len(Creates(calls, "LIMIT")) = 1
    /\ Creates(calls, "STOP_MARKET")[1].side = "BUY"
    /\ Creates(calls, "STOP_MARKET")[1].posSide = "SHORT"
    /\ Creates(calls, "STOP_MARKET")[1].price = 101000
    /\ Creates(calls, "LIMIT")[1].side = "BUY"
    /\ Creates(calls, "LIMIT")[1].price = 98000

(* C13: part_003, on an account where only the reconciler places orders, an
   iteration that finds the position flat places no order, and when its listing
   and its cancels succeed no stop-loss and no take-profit is left resting. *)
C13_FlatCleanup ==
    [][ (variant' = "p003" /\ report'.kind = "pass" /\ report'.pos.amt = 0)
        => /\ CallsOf(calls', "create") = <<>>
           /\ Clean(calls', report')
              => (Resting(book', "STOP_MARKET") = 0 /\ Resting(book', "LIMIT") = 0) ]_vars

\* a snapshot for the symbol is stored and is less than 5 seconds old
C14_Fresh == Has(lastPosition, Symbol) /\ Has(lastUpdate, Symbol) /\ lastUpdate[Symbol] < 5

(* C14: position cache (run of part_003, Trader.GetPosition): when a snapshot for
   the symbol was stored less than 5 seconds ago, the stored snapshot is used and
   the gateway is not called; when the stored snapshot is 5 seconds old or more,
   or none is stored, the position-risk listing is called. *)
C14_Cache ==
    [][ ( \/ variant' = "p003" /\ report'.kind \in {"pass", "fetchfail"}
          \/ variant' = "trader" /\ report'.kind = "get" )
        => /\ C14_Fresh => ( /\ CallsOf(calls', "positionRisk") = <<>>
                             /\ report'.pos = lastPosition[Symbol]
                             /\ ~report'.fetched
                             /\ lastPosition' = lastPosition )
           /\ ~C14_Fresh => ( /\ Len(CallsOf(calls', "positionRisk")) = 1
                              /\ calls'[1].op = "positionRisk" ) ]_vars

\* Trader.GetPosition answered from a snapshot stored 4 seconds ago
C14_Witness ==
    /\ variant = "trader" /\ report.kind = "get" /\ calls = <<>> /\ ~report.err
    /\ report.pos.amt = -250000
    /\ Has(lastUpdate, Symbol) /\ lastUpdate[Symbol] = 4
    /\ lastPosition[Symbol] = report.pos

(* C15: Trader.GetPosition, when the cache is stale and the listing succeeds
   without an entry for the symbol, a flat position is stored with the current
   time and that flat position is returned without an error. *)
C15_FlatReturned ==
    [][ ( /\ variant' = "trader" /\ report'.kind = "get"
          /\ Len(calls') = 1 /\ calls'[1].op = "positionRisk"
          /\ calls'[1].ok /\ calls'[1].n = 0 )
        => /\ Has(lastPosition', Symbol) /\ lastPosition'[Symbol] = FlatPosition
           /\ Has(lastUpdate', Symbol) /\ lastUpdate'[Symbol] = 0
           /\ ~report'.err
           /\ report'.pos = FlatPosition ]_vars

(* C16: position cache (run of part_003, Trader.GetPosition): when the
   position-risk call fails, the stored snapshot is unchanged, its time stamp is
   not renewed (the snapshot does not get younger), and the error is reported. *)
C16_FailureKeepsCache ==
    [][ (\E i \in 1..Len(calls') : calls'[i].op = "positionRisk" /\ ~calls'[i].ok)
        => /\ lastPosition' = lastPosition
           /\ DOMAIN lastUpdate' = DOMAIN lastUpdate
           /\ \A k \in DOMAIN lastUpdate : lastUpdate'[k] >= lastUpdate[k]
           /\ variant' = "trader" => lastUpdate' = lastUpdate
           /\ report'.err ]_vars

\* Trader.GetPosition failed on a stale snapshot of the long position, which is kept
C16_Witness ==
    /\ variant = "trader" /\ report.kind = "get" /\ report.err
    /\ calls = <<FetchCall(FALSE)>>
    /\ Has(lastPosition, Symbol) /\ lastPosition[Symbol].amt = 100000
    /\ Has(lastUpdate, Symbol) /\ lastUpdate[Symbol] = 5

(* C17: part_003, in an iteration whose position-risk call fails neither the
   monitor nor the reconciler runs: the failed call is the only gateway call,
   no order is listed, cancelled or created, and maxProfit is not modified. *)
C17_NothingOnFetchFailure ==
    [][ ( /\ variant' = "p003"
          /\ \E i \in 1..Len(calls') : calls'[i].op = "positionRisk" /\ ~calls'[i].ok )
        => /\ Len(calls') = 1
           /\ maxProfit' = maxProfit
           /\ book' = book
           /\ ~report'.monitored ]_vars

\* the fetch failed while a mark of 300 was stored and protective orders rested
C17_Witness ==
    /\ variant = "p003" /\ report.kind = "fetchfail" /\ calls = <<FetchCall(FALSE)>>
    /\ Has(maxProfit, Symbol) /\ maxProfit[Symbol] = 300
    /\ BagCardinality(book) = 2

\* one more iteration of the loop of part_003 or of part_001
C18_LoopStep ==
    \/ RunCached
    \/ RunFetch(MovingPositions)
    \/ RunFetchFails
    \/ Tick001(MovingPositions)
    \/ TickFetchFails001

(* C18: part_003 and part_001, after an iteration in which the position fetch, the
   order listing, a cancel, a create or the market close failed, run() has not
   returned and a next iteration of the loop can be taken. *)
C18_LoopContinues ==
    (report.kind \in {"pass", "fetchfail"} /\ (report.err \/ ~AllOk(calls)))
    => (running /\ ENABLED C18_LoopStep)

\* part_001 had its market close rejected and goes on
C18_Witness ==
    /\ variant = "p001" /\ report.kind = "pass" /\ report.err
    /\ report.triggered /\ ~report.closed
    /\ running /\ ENABLED C18_LoopStep

(* C19: within one iteration the protective-exit monitor runs before the order
   reconciler: a market close is issued before any listing of the open orders,
   any cancel and any create of a stop-loss or take-profit of that iteration. *)
C19_MonitorFirst ==
    [][ report'.kind = "pass"
        => \A i, j \in 1..Len(calls') :
              ( /\ calls'[i].op = "create" /\ calls'[i].typ = "MARKET"
                /\ \/ calls'[j].op \in {"list", "cancel"}
                   \/ calls'[j].op = "create" /\ calls'[j].typ \in {"STOP_MARKET", "LIMIT"} )
              => i < j ]_vars

\* the pass just made worked on the short position of 2.5 at entry 50.00, found no
\* resting order, and every gateway call succeeded
C20_ShortPass ==
    /\ PassedOpen("p003")' /\ Clean(calls', report') /\ book = EmptyBag
    /\ report'.pos.amt = -250000 /\ report'.pos.entry = 50000

\* the creates of the log cs are a stop-market BUY at 51.00 and a GTC limit BUY at
\* price tp, both for 2.5000
C20_Creates(cs, tp) ==
    /\ Len(CallsOf(cs, "create")) = 2
    /\ Len(Creates(cs, "STOP_MARKET")) = 1
    /\ Len(Creates(cs, "LIMIT")) = 1
    /\ LET sl == Creates(cs, "STOP_MARKET")[1]
           lm == Creates(cs, "LIMIT")[1]
       IN  /\ sl.side = "BUY" /\ sl.price = 51000 /\ sl.qty = 250000
           /\ lm.side = "BUY" /\ lm.price = tp /\ lm.qty = 250000 /\ lm.tif = "GTC"

(* C20: part_003, for a short position of 2.5000 at entry 50.00 and no resting
   order, one pass places a stop-market BUY at 51.00 and a GTC limit BUY at 46.00,
   both for 2.5000. *)
C20_ShortScenario46 ==
    [][ C20_ShortPass => C20_Creates(calls', 46000) ]_vars

(* C20 (amended): part_003, for a short position of 2.5000 at entry 50.00 and no
   resting order, one pass places a stop-market BUY at 51.00 and a GTC limit BUY
   at 48.00 (the entry price less 2.0), both for 2.5000. *)
C20_ShortScenario48 ==
    [][ C20_ShortPass => C20_Creates(calls', 48000) ]_vars

C20_Witness ==
    /\ PassedOpen("p003") /\ Clean(calls, report)
    /\ report.pos.amt = -250000 /\ report.pos.entry = 50000
    /\ C20_Creates(calls, 48000)
    /\ CallsOf(calls, "list")[1].n = 0
    /\ OneLegEach(book, report.pos.amt)

\* the entry price of the position is a whole number of 0.01 ticks
C21_OnTick(pos) == pos.entry % 10 = 0

(* C21: part_003, for every non-flat position whose entry price is a whole number
   of 0.01 ticks, the stop-loss the reconciler places has stop price entry - 1.00
   for a long and entry + 1.00 for a short position, and the take-profit has price
   entry + 2.00 for a long and entry - 2.00 for a short position; a long of 1.0000
   at entry 100.00 with no resting order gets a stop-market SELL at 99.00 and a GTC
   limit SELL at 102.00, both for 1.0000. *)
C21_Prices ==
    [][ (PassedOpen("p003")' /\ C21_OnTick(report'.pos))
        => LET amt == report'.pos.amt
               entry == report'.pos.entry
               sl == Creates(calls', "STOP_MARKET")
               tp == Creates(calls', "LIMIT")
           IN  /\ \A i \in 1..Len(sl) :
                     sl[i].price = (IF amt > 0 THEN entry - 1000 ELSE entry + 1000)
               /\ \A i \in 1..Len(tp) :
                     tp[i].price = (IF amt > 0 THEN entry + 2000 ELSE entry - 2000)
               /\ ( /\ amt = 100000 /\ entry = 100000
                    /\ book = EmptyBag /\ Clean(calls', report') )
                  => /\ Len(sl) = 1 /\ Len(tp) = 1 /\ Len(CallsOf(calls', "create")) = 2
                     /\ sl[1].side = "SELL" /\ sl[1].price = 99000 /\ sl[1].qty = 100000
                     /\ tp[1].side = "SELL" /\ tp[1].price = 102000 /\ tp[1].qty = 100000
                     /\ tp[1].tif = "GTC" ]_vars

\* the long position of 1.0000 at 100.00 got its two legs at 99.00 and 102.00
C21_Witness ==
    /\ PassedOpen("p003") /\ Clean(calls, report)
    /\ report.pos.amt = 100000 /\ report.pos.entry = 100000
    /\ Len(Creates(calls, "STOP_MARKET")) = 1 /\ Creates(calls, "STOP_MARKET")[1].price = 99000
    /\ Len(Creates(calls, "LIMIT")) = 1 /\ Creates(calls, "LIMIT")[1].price = 102000
    /\ CallsOf(calls, "list")[1].n = 0
    /\ OneLegEach(book, 100000)

\* the latest step was an iteration that reached the trigger test on an open position
C22_Tested == report.kind = "pass" /\ report.monitored /\ report.pos.amt # 0

(* C22: part_003 and part_001, the protective market close is issued only when the
   unrealized PnL has fallen below half of the peak and the peak is above 200: with
   the peak exactly at 200, or with the PnL exactly at half of the peak, no market
   close is issued. *)
C22_StrictTrigger ==
    [][ C22_Tested'
        => LET mk == Creates(calls', "MARKET")
               peak == report'.mark
               unPnl == report'.pos.pnl
           IN  /\ mk # <<>> => (peak > 200 /\ 2 * unPnl < peak)
               /\ (peak = 200 \/ 2 * unPnl = peak) => mk = <<>> ]_vars

(* C22 (amended): part_003 and part_001, the protective market close is issued
   only when the peak is at least 200 and the unrealized PnL is at most half of
   the peak; both bounds are inclusive: with the peak exactly at 200 and the PnL
   exactly at half of it (100) one market close is issued, while with a peak
   below 200 or a PnL above half of the peak none is. *)
C22_InclusiveTrigger ==
    [][ C22_Tested'
        => LET mk == Creates(calls', "MARKET")
               peak == report'.mark
               unPnl == report'.pos.pnl
           IN  /\ mk # <<>> => (peak >= 200 /\ 2 * unPnl <= peak)
               /\ (peak = 200 /\ 2 * unPnl = peak) => Len(mk) = 1
               /\ (peak < 200 \/ 2 * unPnl > peak) => mk = <<>> ]_vars

\* part_003 issued the market close at a peak of exactly 200 and a PnL of exactly 100
C22_Witness ==
    /\ variant = "p003" /\ C22_Tested
    /\ report.mark = 200 /\ report.pos.pnl = 100
    /\ Len(Creates(calls, "MARKET")) = 1
    /\ Creates(calls, "MARKET")[1].ok

\* the book holds a stop-market and a limit order with the quantity of amt
C23_BothLegs(bk, amt) ==
    /\ \E o \in BagToSet(bk) : o.type = "STOP_MARKET" /\ Within(o.qty, amt)
    /\ \E o \in BagToSet(bk) : o.type = "LIMIT" /\ Within(o.qty, amt)

(* C23: part_003, when a pass on a non-flat position returned an error (a gateway
   call failed, so that at most some legs were placed), the next pass on the
   unchanged position in which every gateway call succeeds places each leg that
   is missing, and a stop-loss and a take-profit with the position's quantity
   both rest afterwards. *)
C23_RetryCompletes ==
    [][ ( /\ report.kind = "pass" /\ report.err /\ report.pos.amt # 0
          /\ PassedOpen("p003")' /\ report'.pos = report.pos
          /\ Clean(calls', report') )
        => LET amt == report'.pos.amt
           IN  /\ C23_BothLegs(book', amt)
               /\ (~\E o \in BagToSet(book) : o.type = "STOP_MARKET" /\ Within(o.qty, amt))
                  => Len(Creates(calls', "STOP_MARKET")) = 1
               /\ (~\E o \in BagToSet(book) : o.type = "LIMIT" /\ Within(o.qty, amt))
                  => Len(Creates(calls', "LIMIT")) = 1 ]_vars

\* the pass after a failed placement of the take-profit placed the take-profit alone
C23_Witness ==
    /\ PassedOpen("p003") /\ report.retry /\ Clean(calls, report)
    /\ report.pos.amt = -250000
    /\ Creates(calls, "STOP_MARKET") = <<>>
    /\ Len(Creates(calls, "LIMIT")) = 1
    /\ C23_BothLegs(book, report.pos.amt)
    /\ BagCardinality(book) = 2

\* the number of resting orders cancelAllTPSL(0) is to cancel: reduce-only limit
\* orders and stop-market orders
C24_Eligible(bk) ==
    BagCardinality(SelectBag(bk, {o \in BagToSet(bk) :
        (o.type = "LIMIT" /\ o.reduceOnly) \/ o.type = "STOP_MARKET"}))

(* C24: part_003, in a pass whose listing of the open orders fails an error is
   returned and no cancel and no create call is issued; in the cleanup of a flat
   position whose listing succeeds, a cancel call is issued for every eligible
   order whether or not earlier cancels were rejected, and no error is returned. *)
C24_CancelFailureNotFatal ==
    [][ (variant' = "p003" /\ report'.kind = "pass")
        => LET lists == CallsOf(calls', "list")
               cancels == CallsOf(calls', "cancel")
           IN  /\ (\E i \in 1..Len(lists) : ~lists[i].ok)
                  => /\ report'.err
                     /\ cancels = <<>>
                     /\ CallsOf(calls', "create") = <<>>
                     /\ book' = book
               /\ (report'.pos.amt = 0 /\ AllOk(lists))
                  => /\ ~report'.err
                     /\ Len(cancels) = C24_Eligible(book)
                     /\ BagCardinality(book) - BagCardinality(book')
                           = Len(SelectSeq(cancels, LAMBDA c : c.ok)) ]_vars

\* a cleanup in which one cancel was rejected and the other one still went through
C24_Witness ==
    /\ variant = "p003" /\ report.kind = "pass" /\ report.pos.amt = 0 /\ ~report.err
    /\ Len(CallsOf(calls, "cancel")) = 2
    /\ \E i, j \in 1..Len(calls) :
          /\ calls[i].op = "cancel" /\ ~calls[i].ok
          /\ calls[j].op = "cancel" /\ calls[j].ok
    /\ BagCardinality(book) = 1

\* the book holds an order of type typ with the quantity of amt
C26_HasLeg(bk, typ, amt) == \E o \in BagToSet(bk) : o.type = typ /\ Within(o.qty, amt)

(* C26: part_003, in a pass on a non-flat position whose listing shows exactly one
   of the two legs (a stop-market or a limit order with the position's quantity),
   the only order placed is the missing leg: no cancel call is issued, no order of
   the type of the existing leg is created, and every order that rested before
   the pass still rests after it. *)
C26_TopUpOnly ==
    [][ ( /\ PassedOpen("p003")'
          /\ AllOk(CallsOf(calls', "list"))
          /\ C26_HasLeg(book, "STOP_MARKET", report'.pos.amt)
                # C26_HasLeg(book, "LIMIT", report'.pos.amt) )
        => LET amt == report'.pos.amt
               present == IF C26_HasLeg(book, "LIMIT", amt) THEN "LIMIT" ELSE "STOP_MARKET"
               missing == IF present = "LIMIT" THEN "STOP_MARKET" ELSE "LIMIT"
           IN  /\ CallsOf(calls', "cancel") = <<>>
               /\ Creates(calls', present) = <<>>
               /\ Len(Creates(calls', missing)) = 1
               /\ Len(CallsOf(calls', "create")) = 1
               /\ book \sqsubseteq book' ]_vars

\* the long position of 1.0000 had a limit order of its quantity resting and got
\* the stop-loss alone
C26_Witness ==
    /\ PassedOpen("p003") /\ Clean(calls, report) /\ report.pos.amt = 100000
    /\ CallsOf(calls, "list")[1].n = 1
    /\ CallsOf(calls, "cancel") = <<>>
    /\ Creates(calls, "LIMIT") = <<>>
    /\ Len(Creates(calls, "STOP_MARKET")) = 1
    /\ BagCardinality(book) = 2
    /\ C26_HasLeg(book, "LIMIT", 100000) /\ C26_HasLeg(book, "STOP_MARKET", 100000)

(* C29: part_001, with a stable non-flat position, a gateway whose calls all
   succeed and no resting order at the start, the ticks settle: a tick of such a
   run that leaves the book as it found it (so that every later tick repeats it)
   ends with one stop-market and one limit order of the position's quantity
   resting, and has issued no cancel and no create call. *)
C29_Settles ==
    [][ ( /\ variant' = "p001" /\ report'.kind = "pass"
          /\ report'.streak >= 2
          /\ book' = book /\ positions' = positions /\ maxProfit' = maxProfit )
        => /\ OneLegEach(book', report'.pos.amt)
           /\ CallsOf(calls', "cancel") = <<>>
           /\ CallsOf(calls', "create") = <<>> ]_vars

(* C25: part_000 and part_002, within one run of checkProtectiveStopProfit (and,
   in part_000, within the run of checkAndSetStopLoss that follows it) every
   cancel call has returned, accepted or rejected, before the first create call of
   a stop-loss or take-profit is issued. *)
C25_CancelsBeforeCreates ==
    [][ (variant' \in {"p000", "p002"} /\ report'.kind = "pass")
        => \A i, j \in 1..Len(calls') :
              ( /\ (i <= report'.first) = (j <= report'.first)
                /\ calls'[i].op = "create"
                /\ calls'[i].typ \in {"STOP_MARKET", "LIMIT"}
                /\ calls'[j].op = "cancel" )
              => j < i ]_vars

\* part_002 reset both legs: two cancels, rejected by the venue, then the two creates
C25_Witness ==
    /\ variant = "p002" /\ report.kind = "pass" /\ report.pos.amt # 0
    /\ Len(CallsOf(calls, "cancel")) = 2
    /\ \E j \in 1..Len(calls) : calls[j].op = "cancel" /\ ~calls[j].ok
    /\ Len(Creates(calls, "STOP_MARKET")) = 1 /\ Len(Creates(calls, "LIMIT")) = 1
    /\ calls[Len(calls)].op = "create"

(* C30: part_000, in a tick on a non-flat position in which a stop-market or a
   limit order with the position's quantity is missing and every gateway call
   succeeds, every resting limit and stop-market order is cancelled and both legs
   are created, and at the end of the tick (checkAndSetStopLoss has run too)
   exactly one stop-market and one limit order rest, both with the position's
   quantity. *)
C30_JointReset ==
    [][ ( /\ PassedOpen("p000")' /\ Clean(calls', report')
          /\ \/ ~\E o \in BagToSet(book) :
                   o.type = "STOP_MARKET" /\ Within(o.qty, report'.pos.amt)
             \/ ~\E o \in BagToSet(book) :
                   o.type = "LIMIT" /\ Within(o.qty, report'.pos.amt) )
        => /\ Len(CallsOf(calls', "cancel"))
                 = Resting(book, "STOP_MARKET") + Resting(book, "LIMIT")
           /\ Len(Creates(calls', "STOP_MARKET")) = 1
           /\ Len(Creates(calls', "LIMIT")) = 1
           /\ OneLegEach(book', report'.pos.amt)
           /\ BagCardinality(book') = 2 ]_vars

\* a tick of part_000 cancelled two resting orders, one of them a limit order that
\* is not reduce-only, and placed both legs for the short position
C30_Witness ==
    /\ PassedOpen("p000") /\ Clean(calls, report) /\ report.pos.amt = -250000
    /\ Len(CallsOf(calls, "cancel")) = 2
    /\ \E j \in 1..Len(calls) :
          calls[j].op = "cancel" /\ calls[j].typ = "LIMIT" /\ calls[j].qty = 100000
    /\ Len(CallsOf(calls, "create")) = 2
    /\ OneLegEach(book, -250000)

(* C27: run() of part_003 and the updater of trader_ui.go, no two ticks overlap:
   whenever a tick issues a gateway call or starts, every earlier tick is over
   (each of its gateway calls has returned and each of its updates of maxProfit
   and of the position cache is done), so at most one tick is in progress. *)
C27_TicksSerial ==
    [][ /\ \A b \in bodies' :
              (b \notin bodies /\ (b.busy \/ b.at = 0))
              => \A c \in bodies : c.n >= b.n
        /\ Cardinality(bodies') <= 1 ]_vars

\* the third tick of the updater has a gateway call in flight while the candle
\* goroutine has one too, and no other tick is in progress
C27_Witness ==
    /\ variant = "ui" /\ loop.n = 3 /\ loop.pc = "body"
    /\ bodies = {[n |-> 3, at |-> 2, busy |-> TRUE]}
    /\ "klines" \in others

\* one more iteration of the loop of part_003
C28_LoopStep ==
    \/ RunCached
    \/ RunFetch(CalmPositions)
    \/ RunFetchFails

(* C28: part_003, when the API key or the secret is empty at the start, main()
   ends the process with a fatal error and the loop never makes a gateway call:
   the process is never running. *)
C28_FatalWithoutKeys ==
    (env.apiKey = "" \/ env.secretKey = "")
    => /\ phase \in {"main", "fatal"}
       /\ ~running
       /\ calls = <<>>
       /\ ~ENABLED C28_LoopStep
       /\ phase = "main" => ENABLED Main

\* the process ended with a fatal error for an empty secret alone
C28_Witness ==
    /\ phase = "fatal" /\ ~running
    /\ env.apiKey = "key" /\ env.secretKey = ""

-----------------------------------------------------------------------------
\* the larger of two integers
C31_Max(a, b) == IF a > b THEN a ELSE b

(* C31: part_003 and part_001, an iteration whose triggered market close is rejected
   returns an error and leaves maxProfit[symbol] in the map with the value the
   trigger test read; and the next iteration that reaches the monitor for a
   non-flat position whose unrealized PnL is still at most half of the kept mark
   (raised to the new PnL when that is larger) issues a market close again. *)
C31_RejectedCloseRetried ==
    [][ CloseRejected(report)
        => /\ report.err
           /\ Has(maxProfit, Symbol)
           /\ maxProfit[Symbol] = report.mark
           /\ Creates(calls, "MARKET") # <<>>
           /\ ~Creates(calls, "MARKET")[1].ok
           /\ (/\ report'.kind = "pass"
               /\ report'.monitored
               /\ report'.pos.amt # 0
               /\ DrawdownTriggered(C31_Max(maxProfit[Symbol], report'.pos.pnl),
                                    report'.pos.pnl))
              => /\ report'.triggered
                 /\ Len(Creates(calls', "MARKET")) = 1
                 /\ Creates(calls', "MARKET")[1].qty = Fmt4(Abs(report'.pos.amt)) ]_vars

\* a tick right after a rejected close issues the close again, and it is accepted
C31_Witness ==
    /\ report.kind = "pass"
    /\ report.again
    /\ report.triggered
    /\ report.closed
    /\ report.mark = 200
    /\ report.pos.pnl = 100
    /\ Len(Creates(calls, "MARKET")) = 1

\* the resting orders of bk that the leg test of part_003 accepts for amt
C32_Counted(bk, amt) ==
    {o \in BagToSet(bk) : QtyMatches(o.qty, amt) /\ o.type \in {"STOP_MARKET", "LIMIT"}}

(* C32: part_003, in every pass on a non-flat position whose listing succeeds, each
   listed order that the pass accepts as the stop-loss or as the take-profit of the
   position (so that the pass creates no order of that type) is an order that
   cancelAllTPSL(0) would cancel; in particular no limit order without the
   reduce-only flag is accepted as the take-profit. *)
C32_ClassificationConsistent ==
    [][ (/\ variant = "p003"
         /\ report'.kind = "pass"
         /\ report'.pos.amt # 0
         /\ CallsOf(calls', "list") # <<>>
         /\ CallsOf(calls', "list")[1].ok)
        => \A o \in C32_Counted(book, report'.pos.amt) :
              /\ Creates(calls', o.type) = <<>>
              /\ BagIn(o, CancelTargets(book, 0)) ]_vars

(* C33: part_001 and trader_ui.go (the update that tests whether the map has an
   entry), while a position is open and no protective close has been accepted,
   maxProfit[symbol] after each check of the monitor equals the maximum unrealized
   PnL the monitor has observed for that position so far, also when an observation
   is exactly 0. *)
C33_ExistsHighWaterMark ==
    (variant \in {"p001", "ui"} /\ Has(seenMax, Symbol))
    => (Has(maxProfit, Symbol) /\ maxProfit[Symbol] = seenMax[Symbol])

(* C34: trader_ui.go, when updatePositions runs on a position whose quantity differs
   by more than 0.0001 from that of the tick before while a stop-market and a limit
   order sized for the old quantity rest, and every gateway call of the pass
   succeeds, the book afterwards holds a stop-market order and a limit order whose
   quantities are within 0.0001 of the new absolute quantity. *)
C34_LegsFollowQuantity ==
    [][ (/\ variant = "ui"
         /\ report.kind = "pass" /\ report.pos.amt # 0
         /\ report'.kind = "pass" /\ report'.pos.amt # 0
         /\ ~Within(Abs(report'.pos.amt), report.pos.amt)
         /\ C26_HasLeg(book, "STOP_MARKET", report.pos.amt)
         /\ C26_HasLeg(book, "LIMIT", report.pos.amt)
         /\ Clean(calls', report'))
        => /\ C26_HasLeg(book', "STOP_MARKET", report'.pos.amt)
           /\ C26_HasLeg(book', "LIMIT", report'.pos.amt) ]_vars

\* the orders the cleanup may cancel: stop-market orders and reduce-only limit orders
C35_Eligible(o) == o.type = "STOP_MARKET" \/ (o.type = "LIMIT" /\ o.reduceOnly)

\* the cancel calls of log cs for orders of the type, side and quantity of call c
C35_CancelsLike(cs, c) ==
    SelectSeq(cs, LAMBDA d : /\ d.op = "cancel" /\ d.typ = c.typ
                             /\ d.side = c.side /\ d.qty = c.qty)

\* the number of eligible orders of bk with the type, side and quantity of call c
C35_EligibleLike(bk, c) ==
    BagCardinality(SelectBag(bk, {o \in BagToSet(bk) :
        /\ C35_Eligible(o) /\ o.type = c.typ /\ o.side = c.side /\ o.qty = c.qty}))

(* C35: part_003 and part_002, whether the loop runs or cancelAllTPSL is called on
   its own: every cancel sent is for a listed stop-market order or a listed
   reduce-only limit order (never more cancels of a kind than such orders are
   listed), so that no market order and no limit order without the reduce-only flag
   leaves the book in such a step; and in part_003, with a non-zero current
   quantity, no cancel is sent for an order whose quantity is within 0.0001 of it
   and every such order stays. *)
C35_CleanupFrame ==
    [][ (variant' \in {"p003", "p002"} /\ report'.kind \in {"pass", "cancelAllTPSL"})
        => LET cancels == CallsOf(calls', "cancel")
               amt == report'.pos.amt
           IN  /\ \A i \in 1..Len(cancels) :
                     /\ cancels[i].typ \in {"STOP_MARKET", "LIMIT"}
                     /\ Len(C35_CancelsLike(calls', cancels[i]))
                           <= C35_EligibleLike(book, cancels[i])
               /\ \A o \in BagToSet(book) :
                     ~C35_Eligible(o) => CopiesIn(o, book') >= CopiesIn(o, book)
               /\ (variant' = "p003" /\ amt # 0)
                  => /\ \A i \in 1..Len(cancels) : ~Within(cancels[i].qty, amt)
                     /\ \A o \in BagToSet(book) :
                           Within(o.qty, amt) => CopiesIn(o, book') >= CopiesIn(o, book) ]_vars

\* cancelAllTPSL(1.0) of part_003 has cancelled the stop order for 2.5000 and left
\* the reduce-only limit order for 1.0000 resting
C35_Witness ==
    /\ variant = "p003"
    /\ report.kind = "cancelAllTPSL"
    /\ report.pos.amt = 100000
    /\ Len(CallsOf(calls, "cancel")) = 1
    /\ CallsOf(calls, "cancel")[1].ok
    /\ CallsOf(calls, "cancel")[1].qty = 250000
    /\ BagIn(Order("LIMIT", "SELL", 100000, TRUE), book)

(* C36: Trader.SetStopLoss and Trader.SetTakeProfit of trader.go, checkAndSetTakeProfit
   and checkAndSetStopLoss of part_001 and checkAndSetStopLoss of part_000, called
   with a position of quantity 0, make no gateway call, return no error and leave
   the venue's orders as they are, whatever rests at the venue. *)
C36_FlatNoCall ==
    [][ (/\ report'.kind \in {"set", "checkAndSetTakeProfit", "checkAndSetStopLoss"}
         /\ report'.pos.amt = 0)
        => /\ calls' = <<>>
           /\ ~report'.err
           /\ book' = book
           /\ positions' = positions ]_vars

\* checkAndSetStopLoss of part_001 was called with the flat position while an order
\* rested, and did nothing
C36_Witness ==
    /\ variant = "p001"
    /\ report.kind = "checkAndSetStopLoss"
    /\ report.pos.amt = 0
    /\ calls = <<>>
    /\ ~report.err
    /\ book # EmptyBag

(* C37: part_003, in every loop iteration the snapshot remembered in
   lastPosition["SOLUSDC"] is the snapshot handed to checkProtectiveStopProfit, a
   freshly fetched one included, so that inside the pass the remembered quantity and
   entry price equal the current ones: the pass on a non-flat position sends no
   cancel and lists the open orders once. *)
C37_SnapshotIsArgument ==
    [][ (variant' = "p003" /\ report'.kind = "pass")
        => /\ Has(lastPosition', Symbol)
           /\ lastPosition'[Symbol] = report'.pos
           /\ ~PositionChanged(report'.pos, lastPosition')
           /\ report'.pos.amt # 0
              => /\ CallsOf(calls', "cancel") = <<>>
                 /\ Len(CallsOf(calls', "list")) <= 1 ]_vars

\* a fetched short position of 2.5000 follows a long one of 1.0000 whose take-profit
\* still rests: the pass remembers the new snapshot and cancels nothing
C37_Witness ==
    /\ variant = "p003"
    /\ report.kind = "pass"
    /\ report.fetched
    /\ report.pos.amt = -250000
    /\ lastPosition[Symbol] = report.pos
    /\ BagIn(Order("LIMIT", "SELL", 100000, venueRO), book)
    /\ Len(Creates(calls, "LIMIT")) = 1
    /\ CallsOf(calls, "cancel") = <<>>
    /\ Clean(calls, report)

=============================================================================
